---------------------------- MODULE Spec2Model ----------------------------
(***************************************************************************)
(* Execution core of CTOS: the notional order placer and the price-chasing *)
(* tracker of ctos/core/runtime/ExecutionEngine.py, and the cancel-then-   *)
(* place amend of ctos/drivers/binance/driver_ccxt.py.                     *)
(*                                                                         *)
(* Numbers.  Python floats are modelled as exact integers in fixed units:  *)
(* a price is a number of price ticks, a size a number of size units, a    *)
(* notional a number of (tick x size unit).  With these units              *)
(* usdt_amount / (price * contract_value) is a size in size units, and     *)
(* every product the code forms is an exact rational num/den.              *)
(***************************************************************************)
EXTENDS Integers, Sequences, FiniteSets, TLC

VARIABLES
    \* ---- ExecutionEngine
    soft_orders_to_focus,   \* self.soft_orders_to_focus: sequence of order ids
    watch_threads,          \* len(self.watch_threads)
    placeCall,              \* the last place_incremental_orders call and its outcome
    nextOrderId,            \* the venue's next fresh order id
    marketSpec,             \* what exchange_limits answers for the symbol
    roundMode,              \* how the rounding helpers round: "floor" or "half"
    \* ---- the venue and BinanceDriver
    book,                   \* the venue's orders: id -> order
    amendCall,              \* the last BinanceDriver.amend_order call and its outcome
    quoteNow,               \* the venue's live quote, in price ticks
    fastPolls,              \* cycles in which the venue answers a poll at once
    venueFaults,            \* whether the venue's calls may fail
    \* ---- one _order_tracking_logic thread
    coins,                  \* its argument coins
    batch,                  \* its argument soft_orders_to_focus
    tpc,                    \* where the thread is: "idle", "coin", "order", "end", "done"
    ci,                     \* position of the for loop over coins
    exist,                  \* exist_orders_for_coin
    oi,                     \* position of the for loop over exist_orders_for_coin
    done_coin,
    need_to_watch,
    watch_times_for_all_coins,
    elapsed,                \* time.time() - start_time, in seconds
    endedBy,                \* what line 218 printed: "deadline" or "idle"
    \* ---- history of the thread's driver calls
    lastAmend,              \* the last amend_order call of the thread
    cycleFailed,            \* ids whose status, quote or amend call failed this cycle
    \* ---- the driver registry (AccountManager) and the engines built on it
    drivers,                \* (venue, account) -> the cached driver instance, 0 if none
    createLock,             \* the engine inside the creation critical section, 0 if none
    created,                \* the driver instances created so far: [pair, id]
    ctorPc,                 \* engine -> where its constructor is
    ctorPair,               \* engine -> the (venue, account) it is built for
    cex_driver,             \* engine -> self.cex_driver, 0 if not set
    \* ---- AsterWebSocketManager and the venue's user data stream
    running,                \* self.running
    listen_key,             \* self.listen_key, 0 for None
    websocket,              \* self.websocket: a socket id, 0 for None
    listening,              \* the sockets a _listen loop is reading
    lastPing,               \* self._last_ping_time: "none", "fresh", "stale" (over 10 min)
    sockKey,                \* socket id -> the listen key it was opened with, 0 if unused
    sockOpen,               \* the sockets the server holds open
    sessionKey,             \* the listen key valid at the venue, 0 if none
    keysIssued,             \* how many listen keys the venue has issued
    pendingExpired,         \* sockets with a listenKeyExpired message to read
    venueFilled,            \* the venue's filled size of the account's open order
    heldFilled,             \* filled_size of the last update given to order_update_callback
    lastExpiry,             \* how the last listenKeyExpired message was handled
    \* ---- BinanceDriver's market metadata
    exchange_trade_info,    \* self.exchange_trade_info: symbol -> cached spec, 0 if none
    tradeInfoFile,          \* exchange_trade_info.json: whether it exists, and its content
    venueListing,           \* what load_markets lists: symbol -> spec, 0 if not listed
    limitsCall,             \* the last exchange_limits call and its outcome
    \* ---- AsterClient.place_market_order
    mpc,                    \* where the call is: "idle", "polling", "returned", "raised", "exited"
    order_status,           \* its local order_status
    order_info_bound,       \* whether its local order_info has been assigned
    waited,                 \* time.time() - start_time, in tenths of a second
    processAlive,           \* whether the Python process is still running
    \* ---- the tasks of one AsterWebSocketManager
    pendingConnect,         \* the connect() call awaiting its answers, and its caller
    lastConnect,            \* how the last connect() call ended
    keepalives,             \* _start_keepalive_task tasks that have not ended
    latestAlive,            \* whether self._keepalive_task has not ended
    stopped,               \* whether disconnect() has completed
    \* ---- the clock of one keepalive task
    wallClock,              \* time.time() % (50 * 60) when the task last woke, in minutes
    keyAge,                \* minutes since the listen key was obtained or last extended
    \* ---- the messages one _listen loop reads
    msgs,                   \* how many messages have been read
    lastMessage,            \* the last message read
    callbackCalls,          \* calls of order_update_callback made for the last message
    lastUpdate,             \* the update handed to order_update_callback last
    close_order_side,      \* self.config.close_order_side
    \* ---- LighterClient's order cache
    orders_cache,           \* self.orders_cache: order id -> [status, filled_size]
    current_order,          \* order_id of self.current_order, 0 for None
    lastSeen,               \* order id -> status of the last update seen for it
    lastPush,              \* the last update handled and how it was pushed
    \* ---- lines 219 and 327, one bytecode step at a time
    purged,                 \* the list the comprehension of line 219 has built
    ppc,                    \* where line 327 is: "idle", "loaded", "extended"
    placedRef,              \* the content of the list object line 327 has loaded
    placedSame,             \* whether that object is still self.soft_orders_to_focus
    placedNew,              \* the local soft_orders_to_focus of the placing call
    registered,             \* ids registered for batches that have not terminated
    placements,            \* place_incremental_orders calls completed
    \* ---- EventBus (event_bus.py)
    eventQueue,             \* self._queue: event numbers, StopSignal for None
    bus_running,            \* self._running
    workers,                \* per thread start() made: where it is in _worker_loop
    holding,                \* per thread: the event it took from the queue
    starts,                 \* threads start() has made; the last is self._worker_thread
    stopPc,                 \* where a stop() call is: "idle", "put", "join"
    stats,                  \* self._stats
    enqueued,               \* events put_nowait accepted
    deliveredEvents         \* events handed to _deliver

placeVars == <<placeCall, nextOrderId>>
engineVars == <<soft_orders_to_focus, watch_threads>>
envVars == <<marketSpec, roundMode>>
driverVars == <<book, amendCall>>
venueVars == <<quoteNow, fastPolls, venueFaults>>
threadVars == <<coins, batch, tpc, ci, exist, oi, done_coin, need_to_watch,
                watch_times_for_all_coins, elapsed, endedBy>>
historyVars == <<lastAmend, cycleFailed>>
trackVars == <<venueVars, threadVars, historyVars>>
registryVars == <<drivers, createLock, created, ctorPc, ctorPair, cex_driver>>
channelVars == <<running, listen_key, websocket, listening, lastPing, sockKey,
                 sockOpen, sessionKey, keysIssued, pendingExpired,
                 venueFilled, heldFilled, lastExpiry>>
limitsVars == <<exchange_trade_info, tradeInfoFile, venueListing, limitsCall>>
marketOrderVars == <<mpc, order_status, order_info_bound, waited, processAlive>>
lifeVars == <<pendingConnect, lastConnect, keepalives, latestAlive, stopped>>
clockVars == <<wallClock, keyAge>>
messageVars == <<msgs, lastMessage, callbackCalls, lastUpdate, close_order_side>>
lighterVars == <<orders_cache, current_order, lastSeen, lastPush>>
raceVars == <<purged, ppc, placedRef, placedSame, placedNew, registered, placements>>
busVars == <<eventQueue, bus_running, workers, holding, starts, stopPc, stats, enqueued, deliveredEvents>>
sideVars == <<limitsVars, marketOrderVars, lifeVars, clockVars, messageVars, lighterVars, raceVars, busVars>>
sideButLimits == <<marketOrderVars, lifeVars, clockVars, messageVars, lighterVars, raceVars, busVars>>
sideButMarketOrder == <<limitsVars, lifeVars, clockVars, messageVars, lighterVars, raceVars, busVars>>
sideButLife == <<limitsVars, marketOrderVars, clockVars, messageVars, lighterVars, raceVars, busVars>>
sideButClock == <<limitsVars, marketOrderVars, lifeVars, messageVars, lighterVars, raceVars, busVars>>
sideButMessages == <<limitsVars, marketOrderVars, lifeVars, clockVars, lighterVars, raceVars, busVars>>
sideButLighter == <<limitsVars, marketOrderVars, lifeVars, clockVars, messageVars, raceVars, busVars>>
sideButRace == <<limitsVars, marketOrderVars, lifeVars, clockVars, messageVars, lighterVars, busVars>>
sideButBus == <<limitsVars, marketOrderVars, lifeVars, clockVars, messageVars, lighterVars, raceVars>>
engineSideVars == <<placeVars, engineVars, envVars, driverVars, trackVars>>
componentVars == <<registryVars, channelVars, sideVars>>
coreVars == <<engineSideVars, sideVars>>
vars == <<soft_orders_to_focus, watch_threads, placeCall, nextOrderId,
          marketSpec, roundMode, book, amendCall, quoteNow, fastPolls,
          venueFaults, coins, batch, tpc, ci, exist, oi, done_coin,
          need_to_watch, watch_times_for_all_coins, elapsed, endedBy,
          lastAmend, cycleFailed, drivers, createLock, created, ctorPc,
          ctorPair, cex_driver, running, listen_key, websocket, listening,
          lastPing, sockKey, sockOpen, sessionKey, keysIssued, pendingExpired,
          venueFilled, heldFilled, lastExpiry, exchange_trade_info,
          tradeInfoFile, venueListing, limitsCall, mpc, order_status,
          order_info_bound, waited, processAlive, pendingConnect, lastConnect,
          keepalives, latestAlive, stopped, wallClock, keyAge, msgs,
          lastMessage, callbackCalls, lastUpdate, close_order_side,
          orders_cache, current_order, lastSeen, lastPush, purged, ppc,
          placedRef, placedSame, placedNew, registered, placements,
          eventQueue, bus_running, workers, holding, starts, stopPc, stats,
          enqueued, deliveredEvents>>

---------------------------------------------------------------------------
(* Bounds of the model *)

\* ids the venue hands out in one behaviour of the placer
MaxOrders == 1

\* orders the venue's book can hold
MaxBook == 3

\* ids the venue hands out in one behaviour of the driver
MaxDriverOrders == 2

Min(a, b) == IF a < b THEN a ELSE b

---------------------------------------------------------------------------
(* Rounding helpers (ctos/drivers/okx/util.py, imported at                 *)
(* ExecutionEngine.py:34; described in the specification as roundToStep).  *)

RoundModes == {"floor", "half"}

\* round_like(ref, x): x = num/den rounded to a multiple of the step ref
RoundLike(mode, ref, num, den) ==
    IF mode = "floor"
    THEN ref * (num \div (den * ref))
    ELSE ref * ((2 * num + den * ref) \div (2 * den * ref))

---------------------------------------------------------------------------
(* The venue: its orders as fetch_order reports them *)

None == "None"

NoVenueOrder == [st |-> "none", coin |-> None, side |-> None, type |-> None,
                 size |-> 0, price |-> 0]

BookIds == 1..MaxBook

EmptyBook == [i \in BookIds |-> NoVenueOrder]

NoAmend == [called |-> FALSE, order_id |-> 0, price |-> 0, size |-> 0,
            side |-> None, venueSt |-> "none", original |-> NoVenueOrder,
            cancelled |-> FALSE, ret |-> 0, err |-> None]

---------------------------------------------------------------------------
(* Inputs of place_incremental_orders and what the venue may answer *)

\* market specs exchange_limits returns: the minimum order size is a whole
\* number of size steps, as on the venues
MarketSpecs ==
    { sp \in [min_order_size : {1, 2}, size_precision : {1, 2},
              price_precision : {1, 10}, contract_value : {1}] :
        /\ sp.min_order_size % sp.size_precision = 0
        /\ sp.price_precision = 10 <=> sp.min_order_size # sp.size_precision }

\* quotes get_price_now returns, in price ticks (2000.00 and 1000.05 at a
\* tick of 0.01)
Quotes == {200000, 100005}

\* usdt_amount, in tick x size unit: at quote 200000, 150000 is 0.75 size units
Notionals == {0, 45000, 70000, 110000, 150000, 500000}

\* the caller's price argument; 0 stands for None
NoPrice == 0
ExplicitPrices == {NoPrice, 199003}

Directions == {"buy", "sell", "hold"}

NoOrder == [side |-> "none", type |-> "none", size |-> 0, price |-> 0]

NoTrackerAmend == [called |-> FALSE, order |-> 0, side |-> None, quote |-> 0,
                   dataPrice |-> 0, price |-> 0, out |-> None]

\* engines a behaviour of the registry builds
MaxEngines == 3

Engines == 1..MaxEngines

\* the (venue, account) pairs drivers are asked for
Pairs == {<<"okx", 0>>, <<"binance", 0>>}

\* no driver has been asked for yet
NoRegistry ==
    /\ drivers = [p \in Pairs |-> 0]
    /\ createLock = 0
    /\ created = {}
    /\ ctorPc = [e \in Engines |-> "idle"]
    /\ ctorPair = [e \in Engines |-> <<"okx", 0>>]
    /\ cex_driver = [e \in Engines |-> 0]

\* listen keys the venue issues and sockets the manager opens in a behaviour
MaxKeys == 2
MaxSockets == 2

\* partial fills of the open order
MaxFills == 1

SocketIds == 1..MaxSockets

NoExpiry == [handled |-> FALSE, oldKey |-> 0, out |-> "none", key |-> 0,
             socket |-> 0]

\* AsterWebSocketManager.__init__ (aster.py lines 37-49), before connect
NoChannel ==
    /\ running = FALSE /\ listen_key = 0 /\ websocket = 0
    /\ listening = {} /\ lastPing = "none"
    /\ sockKey = [i \in SocketIds |-> 0] /\ sockOpen = {}
    /\ sessionKey = 0 /\ keysIssued = 0 /\ pendingExpired = {}
    /\ venueFilled = 0 /\ heldFilled = 0
    /\ lastExpiry = NoExpiry

\* symbols exchange_limits is asked about, as _norm_symbol returns them
LimitSymbols == {"ETH/USDT", "SOL/USDT"}

\* versions of a symbol's limits the venue publishes in a behaviour
MaxSpecVersions == 2

SpecVersions == 1..MaxSpecVersions

NoLimitsCall == [called |-> FALSE, symbol |-> "none", path |-> "none",
                 value |-> 0, err |-> FALSE, changed |-> FALSE]

\* no metadata file, nothing cached, no exchange_limits call made
NoLimits ==
    /\ exchange_trade_info = [sy \in LimitSymbols |-> 0]
    /\ tradeInfoFile = [exists |-> FALSE, data |-> [sy \in LimitSymbols |-> 0]]
    /\ venueListing = [sy \in LimitSymbols |-> 0]
    /\ limitsCall = NoLimitsCall

\* no place_market_order call has been made
NoMarketOrder ==
    /\ mpc = "idle" /\ order_status = "" /\ order_info_bound = FALSE
    /\ waited = 0 /\ processAlive = TRUE

\* no connect() call is in progress
NoPending == [by |-> "none", sock |-> 0, task |-> "none"]

\* no connect() call has ended yet
NoConnect == [by |-> "none", out |-> "none"]

\* AsterWebSocketManager.__init__ (aster.py lines 40-48): no task exists
NoLifecycle ==
    /\ pendingConnect = NoPending /\ lastConnect = NoConnect
    /\ keepalives = 0 /\ latestAlive = FALSE /\ stopped = FALSE

\* the keepalive task has not started
NoKeepaliveClock == wallClock = 0 /\ keyAge = 0

NoMessage == [kind |-> "none", status |-> "", side |-> "", callback |-> "none"]

NoUpdate == [status |-> "", side |-> "", order_type |-> ""]

\* no message has been read
NoMessages ==
    /\ msgs = 0 /\ lastMessage = NoMessage /\ callbackCalls = 0
    /\ lastUpdate = NoUpdate /\ close_order_side = "sell"

\* the order ids (order_index) of the pushed updates
LighterOrders == {1, 2}

\* an order id that is not a key of orders_cache
NotCached == [status |-> "absent", filled_size |-> 0]

NoPush == [order_index |-> 0, status |-> "none", filled |-> 0, market |-> "none",
           alone |-> FALSE, wasCached |-> FALSE]

\* LighterClient.__init__ (lighter_driver.py line 101): an empty cache
NoLighter ==
    /\ orders_cache = [o \in LighterOrders |-> NotCached]
    /\ current_order = 0
    /\ lastSeen = [o \in LighterOrders |-> "none"]
    /\ lastPush = NoPush

\* neither line 219 nor line 327 is being executed
NoRace ==
    /\ purged = <<>> /\ ppc = "idle" /\ placedRef = <<>> /\ placedSame = TRUE
    /\ placedNew = <<>> /\ registered = {} /\ placements = 0

\* threads start() may make
MaxStarts == 2

\* EventBus.__init__, lines 41-53: an empty queue, no thread, not running
NoBus ==
    /\ eventQueue = <<>> /\ bus_running = FALSE
    /\ workers = [w \in 1..MaxStarts |-> "unborn"]
    /\ holding = [w \in 1..MaxStarts |-> 0]
    /\ starts = 0 /\ stopPc = "idle"
    /\ stats = [published |-> 0, delivered |-> 0, dropped |-> 0]
    /\ enqueued = {} /\ deliveredEvents = {}

\* every component beside the engine, the registry and the channel is at rest
NoSide == NoLimits /\ NoMarketOrder /\ NoLifecycle /\ NoKeepaliveClock /\ NoMessages /\ NoLighter /\ NoRace /\ NoBus

\* the components outside the engine under study are at rest
NoComponents == NoRegistry /\ NoChannel /\ NoSide

\* the engine as constructed (lines 89-90): no tracking thread has been started
NoThread ==
    /\ coins = <<>> /\ batch = <<>> /\ tpc = "idle" /\ ci = 0
    /\ exist = <<>> /\ oi = 0 /\ done_coin = {} /\ need_to_watch = FALSE
    /\ watch_times_for_all_coins = 0 /\ elapsed = 0 /\ endedBy = "none"
    /\ lastAmend = NoTrackerAmend
    /\ cycleFailed = {}

---------------------------------------------------------------------------
(* ExecutionEngine.place_incremental_orders *)

Pow(b, k) == IF k = 0 THEN 1 ELSE IF k = 1 THEN b ELSE IF k = 2 THEN b * b
             ELSE IF k = 3 THEN b * b * b ELSE b * b * b * b

\* usdt_amount * pow(1.25, k) / base_order_money, rounded like min_order_size
ScaledAmount(mode, ref, usdt, base, k) ==
    RoundLike(mode, ref, usdt * Pow(5, k), base * Pow(4, k))

\* the while loop of lines 267-269: amount and the exponents tried so far
RECURSIVE EscalateAmount(_, _, _, _, _, _, _)
EscalateAmount(mode, ref, usdt, base, amount, times, tried) ==
    IF amount = 0 /\ times < 4
    THEN EscalateAmount(mode, ref, usdt, base,
                        ScaledAmount(mode, ref, usdt, base, times + 1),
                        times + 1, Append(tried, times + 1))
    ELSE [amount |-> amount, tried |-> tried]

\* OrderAmount, had the code rounded to a whole size unit instead of to
\* min_order_size
OrderAmountToUnit(mode, spec, usdt, quote) ==
    EscalateAmount(mode, 1, usdt, quote * spec.contract_value,
                   RoundLike(mode, 1, usdt, quote * spec.contract_value),
                   1, <<0>>)

\* lines 262-269: order_amount, with the exponents of 1.25 that were tried
\* (0 is the first, unscaled rounding)
OrderAmount(mode, spec, usdt, quote) ==
    LET base == quote * spec.contract_value
        first == RoundLike(mode, spec.min_order_size, usdt, base)
    IN  EscalateAmount(mode, spec.min_order_size, usdt, base, first, 1, <<0>>)

\* lines 282-285 and 305-308.  `price` is the local variable at that point:
\* line 257 has overwritten the caller's argument with the quote.
LimitPrice(mode, spec, direction, price) ==
    IF price # 0
    THEN RoundLike(mode, spec.price_precision, price, 1)
    ELSE IF direction = "buy"
         THEN RoundLike(mode, spec.price_precision, price * 9999, 10000)
         ELSE RoundLike(mode, spec.price_precision, price * 10001, 10000)

\* the whole call; limitsOut, quoteOut, venueOut are what the three driver
\* calls answer, newId the id the venue gives an accepted order
PlaceOutcome(mode, usdt, direction, softArg, priceArg, limitsOut, spec, quoteOut, quote, venueOut, newId) ==
    LET soft == softArg \/ priceArg # NoPrice                    \* 242-243
        base == [called |-> FALSE, usdt |-> usdt, direction |-> direction, softArg |-> softArg,
                 priceArg |-> priceArg, soft |-> soft, spec |-> spec,
                 quote |-> 0, tried |-> <<>>, amount |-> 0,
                 submitted |-> NoOrder, accepted |-> 0,
                 ids |-> <<>>, ret |-> "ok", err |-> "none", audit |-> <<>>]
    IN  IF limitsOut = "err"                                     \* 248-250
        THEN [base EXCEPT !.ret = "err", !.err = "metadata"]
        ELSE IF quoteOut = "raise"                               \* 257
        THEN [base EXCEPT !.ret = "exc", !.err = "quote"]
        ELSE IF quoteOut = "none"                                \* 258-261
        THEN [base EXCEPT !.ret = "err", !.err = "quote",
                          !.audit = <<"PlaceIncrementalOrders:error">>]
        ELSE
        LET price == quote                                       \* 257
            oa == OrderAmount(mode, spec, usdt, price)
            got == [base EXCEPT !.quote = quote, !.tried = oa.tried,
                                !.amount = oa.amount]
        IN  IF oa.amount = 0                                     \* 270-274
            THEN [got EXCEPT !.ret = "err", !.err = "too_small",
                             !.audit = <<"PlaceIncrementalOrders:error">>]
            ELSE IF direction \notin {"buy", "sell"}             \* 276, 299
            THEN got
            ELSE
            LET order == IF ~soft
                         THEN [side |-> direction, type |-> "MARKET",
                               size |-> oa.amount, price |-> 0]
                         ELSE [side |-> direction, type |-> "limit",
                               size |-> oa.amount,
                               price |-> LimitPrice(mode, spec, direction, price)]
                order_id == IF venueOut = "ok" THEN newId ELSE 0
            IN  [got EXCEPT
                   !.submitted = order,
                   !.accepted = order_id,
                   !.ids = IF soft /\ order_id # 0 THEN <<order_id>> ELSE <<>>,
                   !.audit = IF order_id # 0
                             THEN <<"PlaceIncrementalOrders">>
                             ELSE <<"Failed PlaceIncrementalOrders">>]

NoCall(spec) == PlaceOutcome("floor", 0, "hold", FALSE, NoPrice, "err",
                             spec, "none", 0, "reject", 0)

place_incremental_orders ==
    \E usdt \in Notionals, direction \in Directions, softArg \in BOOLEAN,
       priceArg \in ExplicitPrices, limitsOut \in {"ok", "err"},
       quoteOut \in {"ok", "none", "raise"},
       quote \in Quotes, venueOut \in {"ok", "reject"} :
        \* a driver call the code does not reach has no answer to choose
        /\ limitsOut = "err" => quoteOut = "none"
        /\ quoteOut # "ok" => quote = 200000 /\ venueOut = "reject"
        /\ venueOut = "ok" => nextOrderId <= MaxOrders
        /\ LET r == PlaceOutcome(roundMode, usdt, direction, softArg, priceArg,
                                 limitsOut, marketSpec, quoteOut, quote,
                                 venueOut, nextOrderId)
           IN  placeCall' = [r EXCEPT !.called = TRUE]
        /\ nextOrderId' = IF placeCall'.accepted # 0 THEN nextOrderId + 1
                          ELSE nextOrderId
        \* 326-330: only a soft call that returns normally extends the list
        /\ soft_orders_to_focus' =
             IF placeCall'.ret = "ok" /\ placeCall'.soft
             THEN soft_orders_to_focus \o placeCall'.ids
             ELSE soft_orders_to_focus
        /\ UNCHANGED <<watch_threads, marketSpec, roundMode, driverVars, trackVars,
                     componentVars>>

InitPlace ==
    /\ soft_orders_to_focus = <<>>
    /\ watch_threads = 0
    /\ marketSpec \in MarketSpecs
    /\ placeCall = NoCall(marketSpec)
    /\ nextOrderId = 1
    /\ roundMode \in RoundModes
    /\ book = EmptyBook
    /\ amendCall = NoAmend
    /\ NoThread
    /\ NoComponents
    /\ quoteNow = 200000 /\ fastPolls = 0 /\ venueFaults = TRUE

NextPlace == place_incremental_orders

SpecPlace == InitPlace /\ [][NextPlace]_vars

---------------------------------------------------------------------------
(* BinanceDriver (ctos/drivers/binance/driver_ccxt.py) *)

\* str(x).lower() on the side and type words that occur
Lower(w) ==
    CASE w = "BUY" -> "buy" [] w = "SELL" -> "sell"
      [] w = "LIMIT" -> "limit" [] w = "MARKET" -> "market"
      [] OTHER -> w

\* place_order, lines 512-513: the side and type sent to the venue
CcxtSide(side) == IF Lower(side) \in {"buy", "bid", "long"} THEN "buy" ELSE "sell"

CcxtType(order_type) == IF Lower(order_type) \in {"limit"} THEN "limit" ELSE "market"

\* the order the venue books for an accepted create_order: a limit order
\* rests, a market order is filled at once and carries no price
BookedOrder(symbol, side, order_type, size, price) ==
    IF CcxtType(order_type) = "limit"
    THEN [st |-> "open", coin |-> symbol,
          side |-> IF CcxtSide(side) = "buy" THEN "BUY" ELSE "SELL",
          type |-> "LIMIT", size |-> size, price |-> price]
    ELSE [st |-> "filled", coin |-> symbol,
          side |-> IF CcxtSide(side) = "buy" THEN "BUY" ELSE "SELL",
          type |-> "MARKET", size |-> size, price |-> 0]

\* place_order, lines 502-537: the book and the (order_id, error) returned;
\* venueOut is what create_order does, newId the id the venue assigns.
\* "reject": create_order raises (536-537).  "noid" and "empty": it returns
\* a response without an id, which line 535 hands back as the error: a
\* response with content, or None or an empty dict.
PlaceOrder(bk, symbol, side, order_type, size, price, venueOut, newId) ==
    IF venueOut = "ok"
    THEN [book |-> [bk EXCEPT ![newId] =
                        BookedOrder(symbol, side, order_type, size, price)],
          id |-> newId, err |-> None]
    ELSE IF venueOut = "reject"
    THEN [book |-> bk, id |-> 0, err |-> "VenueRejected"]
    ELSE IF venueOut = "noid"
    THEN [book |-> bk, id |-> 0, err |-> "Response"]
    ELSE [book |-> bk, id |-> 0, err |-> None]

\* amend_order, lines 582-590, without the inheritance of the old price
AmendedFieldsPriceNotInherited(existing, price, size, side) ==
    [side |-> IF side # None THEN side ELSE existing.side,
     type |-> existing.type,
     size |-> IF size # 0 THEN size ELSE existing.size,
     price |-> price]

\* amend_order, lines 582-590: each field from the call, else from the old
\* order (0 and None stand for an argument left out)
AmendedFields(existing, price, size, side) ==
    [side |-> IF side # None THEN side ELSE existing.side,
     type |-> existing.type,
     size |-> IF size # 0 THEN size ELSE existing.size,
     price |-> IF price # 0 THEN price ELSE existing.price]

\* amend_order, lines 539-606.  shape is the layout of the order fetch_order
\* returns: "raw" carries the id under orderId and the size under origQty,
\* "ccxt" (the unified ccxt order) under id and amount.  statusOut, cancelOut
\* and venueOut are what fetch_order, cancel_order and create_order do.
AmendOrder(bk, order_id, symbol, price, size, side, shape, statusOut, cancelOut, venueOut, newId) ==
    LET call == [NoAmend EXCEPT !.called = TRUE, !.order_id = order_id,
                                !.price = price, !.size = size, !.side = side,
                                \* what the venue holds for the id at the call
                                !.venueSt = IF order_id \in DOMAIN bk
                                            THEN bk[order_id].st ELSE "none"]
        existing == bk[order_id]
    IN  IF order_id = 0 \/ symbol = None                          \* 549-552
        THEN [book |-> bk, call |-> [call EXCEPT !.err = "ValueError"]]
        \* 556-566: the lookup failed, or od.get('orderId') is not the id
        ELSE IF statusOut = "err" \/ existing.st = "none" \/ shape = "ccxt"
        THEN [book |-> bk, call |-> call]
        \* 568-570, 608-618: cancel_order raises for an order that is gone
        ELSE IF cancelOut = "raise" \/ existing.st # "open"
        THEN [book |-> bk,
              call |-> [call EXCEPT !.original = existing, !.err = "CancelFailed"]]
        ELSE
        LET cancelled == [bk EXCEPT ![order_id].st = "canceled"]
            f == AmendedFields(existing, price, size, side)
            r == PlaceOrder(cancelled, symbol, f.side, f.type, f.size, f.price,
                            venueOut, newId)
        IN  [book |-> r.book,
             call |-> [call EXCEPT !.original = existing, !.cancelled = TRUE,
                                   !.ret = r.id, !.err = r.err]]

\* what create_order may do
CreateOutcomes == {"ok", "reject", "noid", "empty"}

OrderSides == {"buy", "sell"}
OrderSizes == {1}
OrderPrices == {100}
AmendPrices == {0, 101}
AmendSizes == {0, 2}
AmendSides == {None, "sell"}

\* a caller places a limit order through the driver
BinancePlaceOrder ==
    \E side \in OrderSides, size \in OrderSizes, price \in OrderPrices,
       venueOut \in CreateOutcomes :
        /\ nextOrderId <= Min(MaxDriverOrders, MaxBook)
        /\ LET r == PlaceOrder(book, "c1", side, "limit", size, price, venueOut,
                               nextOrderId)
           IN  /\ book' = r.book
               /\ nextOrderId' = IF r.id # 0 THEN nextOrderId + 1 ELSE nextOrderId
        /\ UNCHANGED <<amendCall, engineVars, placeCall, envVars, trackVars,
                     componentVars>>

\* the market fills a resting order
VenueFill ==
    \E id \in BookIds :
        /\ book[id].st = "open"
        /\ book' = [book EXCEPT ![id].st = "filled"]
        /\ UNCHANGED <<amendCall, nextOrderId, engineVars, placeCall, envVars,
                     trackVars, componentVars>>

BinanceAmendOrder ==
    \E id \in BookIds, price \in AmendPrices, size \in AmendSizes,
       side \in AmendSides, shape \in {"raw", "ccxt"},
       statusOut \in {"ok", "err"}, cancelOut \in {"ok", "raise"},
       venueOut \in CreateOutcomes :
        /\ book[id].st # "none"
        /\ venueOut = "ok" => nextOrderId <= Min(MaxDriverOrders, MaxBook)
        \* a venue call the code does not reach has no answer to choose
        /\ (statusOut = "err" \/ shape = "ccxt") =>
              cancelOut = "ok" /\ venueOut = "reject"
        /\ (cancelOut = "raise" \/ book[id].st # "open") => venueOut = "reject"
        /\ LET r == AmendOrder(book, id, book[id].coin, price, size, side, shape,
                               statusOut, cancelOut, venueOut, nextOrderId)
           IN  /\ book' = r.book
               /\ amendCall' = r.call
        /\ nextOrderId' = IF amendCall'.ret # 0 THEN nextOrderId + 1 ELSE nextOrderId
        /\ UNCHANGED <<engineVars, placeCall, envVars, trackVars, componentVars>>

InitDriver ==
    /\ soft_orders_to_focus = <<>>
    /\ watch_threads = 0
    /\ marketSpec \in { sp \in MarketSpecs : sp.min_order_size = 1 /\ sp.size_precision = 1 }
    /\ placeCall = NoCall(marketSpec)
    /\ nextOrderId = 1
    /\ roundMode = "floor"
    /\ book = EmptyBook
    /\ amendCall = NoAmend
    /\ NoThread
    /\ NoComponents
    /\ quoteNow = 200000 /\ fastPolls = 0 /\ venueFaults = TRUE

NextDriver == BinancePlaceOrder \/ VenueFill \/ BinanceAmendOrder

SpecDriver == InitDriver /\ [][NextDriver]_vars

---------------------------------------------------------------------------
(* ExecutionEngine._order_tracking_logic and focus_on_orders *)

\* line 217: the wall-clock budget of a thread, in seconds
TimeBudget == 10800

\* line 175: the sleep before the first cycle
StartSleep == 10

\* line 186: the sleep before each poll of a coin
PollSleep == 3

\* lines 206 and 209: the cycle count at which the offset reaches zero
ChaseSteps == 200

\* cycles in which polls are answered at once when failures are explored
MaxWatch == 2

\* cycles in which polls are answered at once when a long chase is explored
ChaseCycles == 202

\* seconds a slow poll takes
SlowCall == 5400

Member(seq, x) == \E i \in 1..Len(seq) : seq[i] = x

\* a set of ids as the venue lists it, in ascending order
RECURSIVE Ascending(_)
Ascending(S) ==
    IF S = {} THEN <<>>
    ELSE LET m == CHOOSE x \in S : \A y \in S : x <= y
         IN  <<m>> \o Ascending(S \ {m})

\* get_open_orders(symbol, onlyOrderId=True): the ids of the coin's open orders
OpenOrdersOf(bk, coin) ==
    Ascending({i \in BookIds : bk[i].st = "open" /\ bk[i].coin = coin})

\* align_decimal_places(now_price, x), for x = whole + num/den with whole a
\* number of price ticks: x at the precision of the quote, which is one tick
AlignDecimalPlaces(mode, whole, num, den) == whole + RoundLike(mode, 1, num, den)

\* lines 205-210: the price passed to amend_order in cycle w;
\* now_price * (1 +- 0.0001 * (200 - w) / 200) is
\* now_price +- now_price * (200 - w) / 2000000
NewPrice(mode, now_price, price, w) ==
    IF now_price <= price
    THEN LET tmp_price == AlignDecimalPlaces(mode, now_price,
                 now_price * (ChaseSteps - w), 10000 * ChaseSteps)
         IN  IF tmp_price < price THEN tmp_price ELSE price
    ELSE LET tmp_price == AlignDecimalPlaces(mode, now_price,
                 0 - now_price * (ChaseSteps - w), 10000 * ChaseSteps)
         IN  IF tmp_price > price THEN tmp_price ELSE price

\* line 219, had it kept the list as it is
PurgedNothing(list, b) == list

\* line 219: [x for x in self.soft_orders_to_focus if x not in soft_orders_to_focus]
Purged(list, b) == SelectSeq(list, LAMBDA x : ~Member(b, x))

\* the coins a caller of focus_on_orders passes: those of the orders it placed
CoinsOf(bk, ids) ==
    LET cs == {bk[ids[i]].coin : i \in 1..Len(ids)}
    IN  IF cs = {"c1"} THEN <<"c1">>
        ELSE IF cs = {"c2"} THEN <<"c2">> ELSE <<"c1", "c2">>

\* focus_on_orders, lines 225-234, and the thread up to its first cycle
\* (lines 173-180)
FocusOnOrders ==
    /\ tpc = "idle"
    /\ soft_orders_to_focus # <<>>
    /\ watch_threads' = watch_threads + 1
    /\ coins' = CoinsOf(book, soft_orders_to_focus)
    /\ batch' = soft_orders_to_focus
    /\ done_coin' = {}
    /\ elapsed' = StartSleep
    /\ watch_times_for_all_coins' = 0
    /\ need_to_watch' = FALSE
    /\ ci' = 1
    /\ tpc' = "coin"
    /\ UNCHANGED <<componentVars, soft_orders_to_focus, placeVars, envVars, driverVars,
                   venueVars, exist, oi, endedBy, historyVars>>

\* how long get_open_orders takes: nothing in the first fastPolls cycles,
\* SlowCall afterwards
Latency == IF watch_times_for_all_coins < fastPolls THEN 0 ELSE SlowCall

\* the for loop over coins moves on (line 181), or ends (line 217)
NextCoin ==
    IF ci < Len(coins)
    THEN ci' = ci + 1 /\ tpc' = "coin"
    ELSE ci' = ci /\ tpc' = "end"

\* lines 183-198: one coin is polled
TrackCoin ==
    /\ tpc = "coin"
    /\ IF coins[ci] \in done_coin
       THEN /\ NextCoin
            /\ UNCHANGED <<exist, oi, done_coin, elapsed>>
       ELSE \E listOut \in {"ok", "err"} :
            /\ listOut = "err" => venueFaults
            /\ elapsed' = Min(elapsed + PollSleep + Latency, TimeBudget + 1)
            /\ exist' = IF listOut = "ok" THEN OpenOrdersOf(book, coins[ci])
                        ELSE <<>>
            /\ IF exist' = <<>>
               THEN /\ done_coin' = done_coin \cup {coins[ci]}
                    /\ oi' = 0
                    /\ NextCoin
               ELSE /\ oi' = 1
                    /\ tpc' = "order"
                    /\ UNCHANGED <<done_coin, ci>>
    /\ UNCHANGED <<componentVars, engineVars, placeVars, envVars, driverVars, venueVars,
                   coins, batch, need_to_watch, watch_times_for_all_coins,
                   endedBy, historyVars>>


\* the for loop over exist_orders_for_coin moves on (line 199), or ends
NextOrder ==
    IF oi < Len(exist)
    THEN oi' = oi + 1 /\ UNCHANGED <<tpc, ci>>
    ELSE oi' = oi /\ NextCoin

\* amend_order of a venue that amends in place (the OKX driver the engine
\* is written against, ctos/drivers/okx): an open order takes the new price
\* and size and keeps its id; an order that is gone is not touched
NativeAmend(bk, order, price, size) ==
    IF bk[order].st = "open"
    THEN [book |-> [bk EXCEPT ![order].price = price, ![order].size = size],
          out |-> "ok"]
    ELSE [book |-> bk, out |-> "err"]

\* lines 199-215: one listed order is looked at.  statusOut, quoteOut and
\* amendOut are what get_order_status, get_price_now and amend_order do:
\* "ok" amends in place, "err" returns an error, "raise" raises, "replace"
\* is BinanceDriver.amend_order's cancel-then-place
TrackOrder ==
    /\ tpc = "order"
    /\ LET order == exist[oi] IN
       IF ~Member(batch, order)                                     \* 200
       THEN /\ NextOrder
            /\ UNCHANGED <<need_to_watch, driverVars, nextOrderId, historyVars>>
       ELSE \E statusOut \in {"ok", "err"}, quoteOut \in {"ok", "raise"},
               amendOut \in {"ok", "err", "raise", "replace"} :
            /\ ~venueFaults =>
                  statusOut = "ok" /\ quoteOut = "ok" /\ amendOut = "ok"
            \* a call the code does not reach has no answer to choose
            /\ statusOut = "err" => quoteOut = "ok" /\ amendOut = "ok"
            /\ quoteOut = "raise" => amendOut = "ok"
            /\ amendOut = "replace" => nextOrderId <= MaxBook
            /\ IF statusOut = "err"                                 \* 201-203
               THEN /\ cycleFailed' = cycleFailed \cup {order}
                    /\ NextOrder
                    /\ UNCHANGED <<need_to_watch, driverVars, nextOrderId,
                                   lastAmend>>
               ELSE IF quoteOut = "raise"                           \* 204, 214
               THEN /\ cycleFailed' = cycleFailed \cup {order}
                    /\ NextCoin /\ UNCHANGED oi
                    /\ UNCHANGED <<need_to_watch, driverVars, nextOrderId,
                                   lastAmend>>
               ELSE
               LET data == book[order]
                   now_price == quoteNow
                   new_price == NewPrice(roundMode, now_price, data.price,
                                         watch_times_for_all_coins)
                   native == NativeAmend(book, order, new_price, data.size)
                   replaced == AmendOrder(book, order, data.coin, new_price,
                                          data.size, None, "raw", "ok", "ok",
                                          "ok", nextOrderId)
                   out == IF amendOut = "ok" THEN native.out
                          ELSE IF amendOut = "replace"
                          THEN (IF replaced.call.ret # 0 THEN "replace" ELSE "err")
                          ELSE amendOut
               IN  /\ lastAmend' = [called |-> TRUE, order |-> order,      \* 211
                                    side |-> data.side, quote |-> now_price,
                                    dataPrice |-> data.price,
                                    price |-> new_price, out |-> out]
                   /\ book' = IF amendOut = "ok" THEN native.book
                              ELSE IF amendOut = "replace" THEN replaced.book
                              ELSE book
                   /\ amendCall' = IF amendOut = "replace" THEN replaced.call
                                   ELSE amendCall
                   /\ nextOrderId' = IF out = "replace" THEN nextOrderId + 1
                                     ELSE nextOrderId
                   /\ cycleFailed' = IF out \in {"err", "raise"}
                                     THEN cycleFailed \cup {order}
                                     ELSE cycleFailed
                   /\ IF amendOut = "raise"                         \* 214
                      THEN NextCoin /\ UNCHANGED <<oi, need_to_watch>>
                      ELSE need_to_watch' = TRUE /\ NextOrder       \* 212
    /\ UNCHANGED <<componentVars, engineVars, placeCall, envVars, venueVars, coins, batch,
                   exist, done_coin, watch_times_for_all_coins, elapsed,
                   endedBy>>

\* line 217
ShouldStop(need, el) == ~need \/ el > TimeBudget

\* lines 217-223: the end of a cycle
EndCycle ==
    /\ tpc = "end"
    /\ IF ShouldStop(need_to_watch, elapsed)
       THEN /\ endedBy' = IF need_to_watch THEN "deadline" ELSE "idle"  \* 218
            /\ soft_orders_to_focus' = Purged(soft_orders_to_focus, batch)
            /\ watch_threads' = IF watch_threads >= 1 THEN watch_threads - 1
                                ELSE watch_threads
            /\ tpc' = "done"
            /\ UNCHANGED <<watch_times_for_all_coins, need_to_watch, ci,
                           cycleFailed>>
       ELSE /\ watch_times_for_all_coins' = watch_times_for_all_coins + 1
            /\ need_to_watch' = FALSE                                \* 180
            /\ ci' = 1
            /\ tpc' = "coin"
            /\ cycleFailed' = {}
            /\ UNCHANGED <<endedBy, engineVars>>
    /\ UNCHANGED <<componentVars, placeVars, envVars, driverVars, venueVars, coins, batch,
                   exist, oi, done_coin, elapsed, lastAmend>>

\* quotes the tracked market shows, in price ticks
TrackQuotes == {2000000, 2000003}

\* the market moves
QuoteMove ==
    /\ tpc \in {"coin", "order"}
    /\ \E q \in TrackQuotes : q # quoteNow /\ quoteNow' = q
    /\ UNCHANGED <<componentVars, engineVars, placeVars, envVars, driverVars, fastPolls,
                   venueFaults, threadVars, historyVars>>

\* the market fills a resting order while the thread runs
TrackedOrderFills ==
    /\ tpc \in {"coin", "order"}
    /\ VenueFill

\* soft orders resting at the venue, as place_incremental_orders leaves them
\* with a quote of 2000000: a buy at quote * 0.9999, a sell at quote * 1.0001
RestingOrder(coin, side) ==
    [st |-> "open", coin |-> coin, side |-> side, type |-> "LIMIT", size |-> 1,
     price |-> IF side = "BUY" THEN 1999800 ELSE 2000200]

RestingBooks ==
    { [i \in BookIds |-> IF i = 1 THEN RestingOrder("c1", s1)
                         ELSE IF i = 2 /\ n = 2 THEN RestingOrder(c2, s2)
                         ELSE NoVenueOrder] :
        n \in {1, 2}, s1 \in {"BUY", "SELL"}, s2 \in {"BUY", "SELL"},
        c2 \in {"c1", "c2"} }

InitEngineTracking ==
    /\ book \in RestingBooks
    /\ soft_orders_to_focus = Ascending({i \in BookIds : book[i].st = "open"})
    /\ nextOrderId = Len(soft_orders_to_focus) + 1
    /\ watch_threads = 0
    /\ marketSpec \in { sp \in MarketSpecs : sp.min_order_size = 1 /\ sp.size_precision = 1 }
    /\ placeCall = NoCall(marketSpec)
    /\ roundMode \in RoundModes
    /\ amendCall = NoAmend
    /\ NoThread
    /\ NoComponents
    /\ quoteNow = 2000000

NextTrack ==
    \/ FocusOnOrders
    \/ TrackCoin
    \/ TrackOrder
    \/ EndCycle
    \/ TrackedOrderFills

NextChase == NextTrack \/ QuoteMove

\* failures of the venue's calls, over a few cycles and up to the deadline
InitTrack ==
    /\ InitEngineTracking
    /\ fastPolls = MaxWatch
    /\ venueFaults = TRUE

SpecTrack == InitTrack /\ [][NextTrack]_vars

\* a long chase of one order on a venue whose calls succeed
InitChase ==
    /\ InitEngineTracking
    /\ Len(soft_orders_to_focus) = 1
    /\ fastPolls = ChaseCycles
    /\ venueFaults = FALSE

SpecChase == InitChase /\ [][NextChase]_vars

\* the thread is scheduled and the venue answers: every step of the thread
\* that can be taken is taken
SpecTrackFair ==
    SpecTrack /\ WF_vars(FocusOnOrders) /\ WF_vars(TrackCoin)
              /\ WF_vars(TrackOrder) /\ WF_vars(EndCycle)

---------------------------------------------------------------------------
(* ExecutionEngine.__init__ and the driver registry it asks for its driver  *)
(* (ctos/core/runtime/AccountManager.py: get_driver, described in the       *)
(* specification as the Driver Registry's get(venue, account))              *)

\* the instance a caller inside the critical section ends with, had the
\* section not looked at the cache again
InstanceInSectionUnchecked(cached, fresh) == fresh

\* the instance a caller inside the creation critical section ends with: the
\* cached one if another caller created it meanwhile, else a fresh one
InstanceInSection(cached, fresh) == IF cached # 0 THEN cached ELSE fresh

\* lines 60-70: the constructor asks the registry; a cached driver is handed
\* out without blocking
EngineInit(e) ==
    /\ ctorPc[e] = "idle"
    /\ \E p \in Pairs :
        /\ ctorPair' = [ctorPair EXCEPT ![e] = p]
        /\ IF drivers[p] # 0
           THEN /\ cex_driver' = [cex_driver EXCEPT ![e] = drivers[p]]
                /\ ctorPc' = [ctorPc EXCEPT ![e] = "done"]
           ELSE /\ ctorPc' = [ctorPc EXCEPT ![e] = "wait"]
                /\ UNCHANGED cex_driver
    /\ UNCHANGED <<drivers, createLock, created, coreVars, channelVars>>

\* the caller enters the creation critical section
RegistryEnter(e) ==
    /\ ctorPc[e] = "wait"
    /\ createLock = 0
    /\ createLock' = e
    /\ ctorPc' = [ctorPc EXCEPT ![e] = "create"]
    /\ UNCHANGED <<drivers, created, ctorPair, cex_driver, coreVars, channelVars>>

\* inside the section the driver is created (auto_create) unless it is there
\* by now; a creation that fails caches nothing and the constructor raises
\* RuntimeError (lines 72-73)
RegistryCreate(e) ==
    /\ ctorPc[e] = "create"
    /\ createLock = e
    /\ \E madeOut \in {"ok", "fail"} :
        LET p == ctorPair[e]
            fresh == Cardinality(created) + 1
            inst == InstanceInSection(drivers[p], fresh)
        IN  IF inst = fresh /\ madeOut = "fail"
            THEN /\ ctorPc' = [ctorPc EXCEPT ![e] = "failed"]
                 /\ UNCHANGED <<drivers, created, cex_driver>>
            ELSE /\ drivers' = [drivers EXCEPT ![p] = inst]
                 /\ created' = IF inst = fresh
                               THEN created \cup {[pair |-> p, id |-> fresh]}
                               ELSE created
                 /\ cex_driver' = [cex_driver EXCEPT ![e] = inst]
                 /\ ctorPc' = [ctorPc EXCEPT ![e] = "done"]
    /\ createLock' = 0
    /\ UNCHANGED <<ctorPair, coreVars, channelVars>>

InitRegistry ==
    /\ NoRegistry
    /\ NoChannel
    /\ NoSide
    /\ soft_orders_to_focus = <<>>
    /\ watch_threads = 0
    /\ marketSpec \in { sp \in MarketSpecs : sp.min_order_size = 1 /\ sp.size_precision = 1 }
    /\ placeCall = NoCall(marketSpec)
    /\ nextOrderId = 1
    /\ roundMode = "floor"
    /\ book = EmptyBook
    /\ amendCall = NoAmend
    /\ NoThread
    /\ quoteNow = 200000 /\ fastPolls = 0 /\ venueFaults = TRUE

NextRegistry ==
    \E e \in Engines : EngineInit(e) \/ RegistryEnter(e) \/ RegistryCreate(e)

SpecRegistry == InitRegistry /\ [][NextRegistry]_vars

---------------------------------------------------------------------------
(* AsterWebSocketManager (ctos/drivers/aster/aster.py) and the venue's      *)
(* user data stream                                                         *)

\* what POST /fapi/v1/listenKey answers: the key that is valid, else a new one
IssuedKey == IF sessionKey # 0 THEN sessionKey ELSE keysIssued + 1

\* the socket websockets.connect returns
FreshSocket == Cardinality({i \in SocketIds : sockKey[i] # 0}) + 1

\* the key in the socket's url, had connect kept the key it already held
KeyForSocketReused(held, issued) == IF held # 0 THEN held ELSE issued

\* lines 236 and 241: the key in the socket's url is the one just obtained
KeyForSocket(held, issued) == issued

\* connect, lines 234-253, up to the point where _listen reads the socket.
\* keyOut is what _get_listen_key does ("ok", "none": an answer without a
\* key, "raise"), wsOut what websockets.connect does; suspended is the socket
\* whose loop waits for this call inside _handle_message (0 if none)
Connect(keyOut, wsOut, suspended) ==
    /\ (keyOut = "ok" /\ sessionKey = 0) => keysIssued < MaxKeys
    /\ (keyOut = "ok" /\ wsOut = "ok") => FreshSocket <= MaxSockets
    \* a call the code does not reach has no answer to choose
    /\ keyOut # "ok" => wsOut = "fail"
    /\ IF keyOut = "raise"
       THEN UNCHANGED <<listen_key, sessionKey, keysIssued>>
       ELSE IF keyOut = "none"
       THEN listen_key' = 0 /\ UNCHANGED <<sessionKey, keysIssued>>
       ELSE /\ listen_key' = KeyForSocket(listen_key, IssuedKey)
            /\ sessionKey' = IssuedKey
            /\ keysIssued' = IF sessionKey = 0 THEN keysIssued + 1 ELSE keysIssued
    /\ IF keyOut = "ok" /\ wsOut = "ok"
       THEN /\ websocket' = FreshSocket
            /\ sockKey' = [sockKey EXCEPT ![FreshSocket] = listen_key']
            /\ sockOpen' = sockOpen \cup {FreshSocket}
            /\ running' = TRUE
            /\ listening' = (listening \ {suspended}) \cup {FreshSocket}
       ELSE UNCHANGED <<websocket, sockKey, sockOpen, running, listening>>

\* AsterClient.connect (lines 546-573) starts ws_manager.connect as a task
ChannelConnect ==
    /\ ~running /\ websocket = 0
    /\ \E keyOut \in {"ok", "none", "raise"}, wsOut \in {"ok", "fail"} :
          Connect(keyOut, wsOut, 0)
    /\ UNCHANGED <<lastPing, pendingExpired, venueFilled, heldFilled,
                   lastExpiry, coreVars, registryVars>>

\* the venue invalidates the session and says so on the sockets opened with
\* its key
SessionExpires ==
    /\ sessionKey # 0
    /\ sessionKey' = 0
    /\ pendingExpired' = pendingExpired \cup
                           {i \in sockOpen : sockKey[i] = sessionKey}
    /\ UNCHANGED <<running, listen_key, websocket, listening, lastPing, sockKey,
                   sockOpen, keysIssued, venueFilled, heldFilled, lastExpiry,
                   coreVars, registryVars>>

\* _listen reads a listenKeyExpired message (lines 269-271, 282-284) and
\* _handle_message (lines 312-323) calls connect; an exception of connect is
\* logged and the loop goes on reading the old socket
HandleExpired ==
    \E sock \in listening \cap pendingExpired :
        /\ pendingExpired' = pendingExpired \ {sock}
        /\ IF ~running
           THEN /\ listening' = listening \ {sock}
                /\ UNCHANGED <<listen_key, websocket, sockKey, sockOpen, running,
                               sessionKey, keysIssued, lastExpiry>>
           ELSE \E keyOut \in {"ok", "none", "raise"}, wsOut \in {"ok", "fail"} :
                /\ Connect(keyOut, wsOut, sock)
                /\ lastExpiry' =
                     [handled |-> TRUE, oldKey |-> sockKey[sock],
                      out |-> IF keyOut = "ok" /\ wsOut = "ok" THEN "ok" ELSE "failed",
                      key |-> listen_key', socket |-> websocket']
        /\ UNCHANGED <<lastPing, venueFilled, heldFilled, coreVars, registryVars>>

\* the server closes a socket: the loop reading it ends on ConnectionClosed
\* (lines 289-291) and connect returns
ServerCloses ==
    \E sock \in sockOpen :
        /\ sockOpen' = sockOpen \ {sock}
        /\ listening' = listening \ {sock}
        /\ pendingExpired' = pendingExpired \ {sock}
        /\ UNCHANGED <<running, listen_key, websocket, lastPing, sockKey,
                       sessionKey, keysIssued, venueFilled, heldFilled,
                       lastExpiry, coreVars, registryVars>>

\* a ping frame is read (lines 274-278), or ten minutes pass without one
PingArrives ==
    /\ running
    /\ listening \cap sockOpen # {}
    /\ lastPing # "fresh"
    /\ lastPing' = "fresh"
    /\ UNCHANGED <<running, listen_key, websocket, listening, sockKey, sockOpen,
                   sessionKey, keysIssued, pendingExpired, venueFilled,
                   heldFilled, lastExpiry, coreVars, registryVars>>

PingAges ==
    /\ lastPing = "fresh"
    /\ lastPing' = "stale"
    /\ UNCHANGED <<running, listen_key, websocket, listening, sockKey, sockOpen,
                   sessionKey, keysIssued, pendingExpired, venueFilled,
                   heldFilled, lastExpiry, coreVars, registryVars>>

\* _check_connection_health, lines 157-171
ConnectionHealthy(ping) == ping # "stale"

\* one round of _start_keepalive_task (lines 182-223): atMark says whether
\* the clock is within 5 minutes of a 50-minute mark, keepOut what the PUT of
\* _keepalive_listen_key answers
KeepaliveCheck ==
    /\ running
    /\ \E atMark \in BOOLEAN, keepOut \in {"ok", "fail"},
          keyOut \in {"ok", "none", "raise"}, wsOut \in {"ok", "fail"} :
        LET reconnect ==
              \/ ~ConnectionHealthy(lastPing)                       \* 191
              \/ (listen_key # 0 /\ atMark /\ keepOut = "fail")     \* 205-207
        IN  /\ keepOut = "ok" => sessionKey # 0
            /\ (~ConnectionHealthy(lastPing) \/ ~atMark \/ listen_key = 0)
                  => keepOut = "fail"
            /\ IF reconnect
               THEN Connect(keyOut, wsOut, 0)
               ELSE /\ keyOut = "raise" /\ wsOut = "fail"
                    /\ UNCHANGED <<listen_key, websocket, sockKey, sockOpen,
                                   running, listening, sessionKey, keysIssued>>
    /\ UNCHANGED <<lastPing, pendingExpired, venueFilled, heldFilled,
                   lastExpiry, coreVars, registryVars>>

\* disconnect, lines 388-401
ChannelDisconnect ==
    /\ running
    /\ running' = FALSE
    /\ sockOpen' = sockOpen \ {websocket}
    /\ listening' = listening \ {websocket}
    /\ pendingExpired' = pendingExpired \ {websocket}
    /\ UNCHANGED <<listen_key, websocket, lastPing, sockKey, sessionKey,
                   keysIssued, venueFilled, heldFilled, lastExpiry, coreVars,
                   registryVars>>

\* the sockets on which the venue's pushes are read now
LiveSockets ==
    {i \in listening \cap sockOpen : sessionKey # 0 /\ sockKey[i] = sessionKey}

\* an open order placed through the connected client is partly filled at the
\* venue; the ORDER_TRADE_UPDATE is pushed to the session's sockets and, where
\* one is read, handed to order_update_callback (lines 310-311, 325-372)
OrderPartlyFills ==
    /\ running
    /\ venueFilled < MaxFills
    /\ venueFilled' = venueFilled + 1
    /\ heldFilled' = IF running /\ LiveSockets # {} THEN venueFilled'
                     ELSE heldFilled
    /\ UNCHANGED <<running, listen_key, websocket, listening, lastPing, sockKey,
                   sockOpen, sessionKey, keysIssued, pendingExpired, lastExpiry,
                   coreVars, registryVars>>

InitChannel ==
    /\ NoChannel
    /\ NoRegistry
    /\ NoSide
    /\ soft_orders_to_focus = <<>>
    /\ watch_threads = 0
    /\ marketSpec \in { sp \in MarketSpecs : sp.min_order_size = 1 /\ sp.size_precision = 1 }
    /\ placeCall = NoCall(marketSpec)
    /\ nextOrderId = 1
    /\ roundMode = "floor"
    /\ book = EmptyBook
    /\ amendCall = NoAmend
    /\ NoThread
    /\ quoteNow = 200000 /\ fastPolls = 0 /\ venueFaults = TRUE

NextChannel ==
    \/ ChannelConnect
    \/ SessionExpires
    \/ HandleExpired
    \/ ServerCloses
    \/ PingArrives
    \/ PingAges
    \/ KeepaliveCheck
    \/ ChannelDisconnect
    \/ OrderPartlyFills

SpecChannel == InitChannel /\ [][NextChannel]_vars

---------------------------------------------------------------------------
(* Claims about place_incremental_orders, checked under SpecPlace *)

\* the call got the market spec and a quote, so it reached the sizing
\* (line 262)
Sized == placeCall.called /\ placeCall.quote # 0

Submitted == placeCall.called /\ placeCall.submitted # NoOrder

Compliant(order, spec) ==
    /\ order.size % spec.size_precision = 0
    /\ order.size >= spec.min_order_size

C2_EscalationSteps ==
    Sized =>
        LET t == placeCall.tried
            base == placeCall.quote * placeCall.spec.contract_value
            try(k) == ScaledAmount(roundMode, placeCall.spec.min_order_size,
                                   placeCall.usdt, base, k)
        IN  /\ Len(t) <= 4
            /\ \A i \in 1..Len(t) : t[i] = i - 1
            /\ \A i \in 1..(Len(t) - 1) : try(t[i]) = 0
            /\ placeCall.amount = try(t[Len(t)])

\* C3: without an explicit price, soft=false submits a market order and
\* registers nothing; soft=true submits a limit order at quote*0.9999 (buy)
\* or quote*1.0001 (sell) rounded to the price step, and an accepted soft
\* order's id is in the returned list and in soft_orders_to_focus.
C3_SoftAndMarketOrders ==
    (Submitted /\ placeCall.priceArg = NoPrice) =>
        LET o == placeCall.submitted
            pp == placeCall.spec.price_precision
            q == placeCall.quote
        IN  /\ ~placeCall.softArg =>
                  /\ o.type = "MARKET"
                  /\ placeCall.ids = <<>>
                  /\ \A i \in 1..Len(soft_orders_to_focus) :
                        soft_orders_to_focus[i] # placeCall.accepted
            /\ placeCall.softArg =>
                  /\ o.type = "limit"
                  /\ o.side = "buy" =>
                        o.price = RoundLike(roundMode, pp, q * 9999, 10000)
                  /\ o.side = "sell" =>
                        o.price = RoundLike(roundMode, pp, q * 10001, 10000)
                  /\ placeCall.accepted # 0 =>
                        /\ placeCall.ids = <<placeCall.accepted>>
                        /\ \E i \in 1..Len(soft_orders_to_focus) :
                              soft_orders_to_focus[i] = placeCall.accepted

\* C4: with an explicit price the limit order is submitted at that price,
\* rounded to the price step.
C4_ExplicitPriceUsed ==
    (Submitted /\ placeCall.priceArg # NoPrice) =>
        /\ placeCall.submitted.type = "limit"
        /\ placeCall.submitted.price =
              RoundLike(roundMode, placeCall.spec.price_precision,
                        placeCall.priceArg, 1)

---------------------------------------------------------------------------
(* Claims about BinanceDriver.amend_order, checked under SpecDriver *)

VenueSideOf(side) == IF side \in {"buy", "BUY"} THEN "BUY" ELSE "SELL"

---------------------------------------------------------------------------
(* Claims about the chase of _order_tracking_logic, checked under SpecChase *)

\* the last amend_order call of the thread was for a buy order that get_order_status
\* reported below the quote read in that cycle
ChasedBuyBelowMarket ==
    /\ lastAmend.called
    /\ lastAmend.side = "BUY"
    /\ lastAmend.dataPrice < lastAmend.quote

\* C5: for a soft buy order resting below the market, in every cycle of the
\* chase and however the quote moves between cycles, the price passed to
\* amend_order is never above the quote read in that cycle, and from one
\* amend_order call to the next it never decreases.
C5_BuyChaseMonotoneBelowQuote ==
    /\ [](ChasedBuyBelowMarket => lastAmend.price <= lastAmend.quote)
    /\ [][(ChasedBuyBelowMarket /\ ChasedBuyBelowMarket'
             /\ lastAmend'.order = lastAmend.order)
          => lastAmend'.price >= lastAmend.price]_vars

---------------------------------------------------------------------------
(* Claims about the batch a thread tracks, checked under SpecTrack and      *)
(* SpecTrackFair                                                            *)

Ended(how) == tpc = "done" /\ endedBy = how

BatchIds == {batch[i] : i \in 1..Len(batch)}

\* the orders of the batch that rest at the venue: every order on the book
\* of a tracked engine is a soft order of the batch or the replacement an
\* amend_order call of the thread placed for one
RestingOfBatch == {i \in BookIds : book[i].st = "open"}

\* lines 217-222: the tickets the thread reports as abandoned when it stops
ReportedAbandoned == {}

\* C6: the thread keeps amending every order of the batch that is open at
\* the venue, also under a new id after a cancel-then-place amend, until the
\* order is filled or the deadline fires: when the thread stops for another
\* reason than the deadline, no order of the batch rests at the venue.
C6_OpenOrdersKeepBeingChased ==
    Ended("idle") => RestingOfBatch = {}

\* C7: when the thread stops because the deadline elapsed, every ticket of
\* the batch is filled, cancelled or reported as abandoned; none is left open.
C7_DeadlineLeavesNoOpenTicket ==
    Ended("deadline") =>
        \A id \in BatchIds :
            \/ book[id].st \in {"filled", "canceled"}
            \/ id \in ReportedAbandoned

C9_FailureDoesNotAbortBatch ==
    Ended("idle") => \A id \in cycleFailed : book[id].st # "open"

---------------------------------------------------------------------------
(* Claims about BinanceDriver.amend_order on an order that is gone, checked *)
(* under SpecDriver                                                         *)

\* the order the last amend_order call targeted was filled or cancelled at
\* the venue when the call was made
AmendedOrderWasGone ==
    /\ amendCall.called
    /\ amendCall.venueSt \in {"filled", "canceled"}

\* C11: when the targeted order is already filled or cancelled, amend_order
\* places no replacement and returns an error value that is not empty (never
\* a result whose id and error are both empty).
C11_AmendOfGoneOrderFails ==
    AmendedOrderWasGone =>
        /\ amendCall.ret = 0
        /\ ~amendCall.cancelled
        /\ amendCall.err # None

---------------------------------------------------------------------------
(* Claims about the driver registry, checked under SpecRegistry *)

---------------------------------------------------------------------------
(* Claims about the realtime channel, checked under SpecChannel *)

ReconnectPending ==
    \/ lastPing \in {"fresh", "stale"}
    \/ (listen_key # 0 /\ sessionKey = 0)

\* C14: while the channel reports itself running it reads an open
\* connection, or a reconnect is pending; a dropped connection is never left
\* without either.
C14_RunningMeansListening ==
    running => (listening \cap sockOpen # {} \/ ReconnectPending)

\* C15: once the channel listens again after a session expiry, the filled
\* size the engine was given for the open order equals the venue's.
C15_NoUpdateLostAcrossExpiry ==
    (lastExpiry.handled /\ lastExpiry.out = "ok" /\ running /\ LiveSockets # {})
        => heldFilled = venueFilled

---------------------------------------------------------------------------
(* Claims about the failures of place_incremental_orders, checked under     *)
(* SpecPlace                                                                *)

\* C16: when place_order returns an error and no order id, the call submits
\* nothing further, and as no order was accepted it returns an error to its
\* caller, not a success result.
C16_RejectionIsReturned ==
    (Submitted /\ placeCall.accepted = 0) =>
        /\ placeCall.ret = "err"
        /\ placeCall.err # "none"

\* C17: every call reports its outcome to the audit sink exactly once before
\* it returns, on every exit path: a success record when an order was
\* accepted, a failure record otherwise.
C17_EveryAttemptAudited ==
    placeCall.called =>
        /\ Len(placeCall.audit) = 1
        /\ placeCall.accepted # 0 =>
              placeCall.audit[1] = "PlaceIncrementalOrders"
        /\ placeCall.accepted = 0 =>
              placeCall.audit[1] \in {"PlaceIncrementalOrders:error",
                                      "Failed PlaceIncrementalOrders"}

\* C19: a failing venue call is reported through the returned value: no call
\* of place_incremental_orders ends with an exception crossing to its caller.
C19_NoExceptionCrosses ==
    placeCall.called => placeCall.ret \in {"ok", "err"}

---------------------------------------------------------------------------
(* BinanceDriver's market metadata: exchange_limits and the file           *)
(* exchange_trade_info.json (driver_ccxt.py lines 203-215 and 295-339).    *)
(* A symbol's limits are a version number of what the venue publishes.     *)

\* the dict {"error": ...} returned in the value position (line 312)
ErrorDict == -1

\* the list of limits returned when no symbol is given (line 336)
AllLimits == -2

\* rest of the model while the metadata is exercised
EngineAtRest ==
    /\ soft_orders_to_focus = <<>>
    /\ watch_threads = 0
    /\ marketSpec = [min_order_size |-> 1, size_precision |-> 1,
                     price_precision |-> 1, contract_value |-> 1]
    /\ placeCall = NoCall(marketSpec)
    /\ nextOrderId = 1
    /\ roundMode = "floor"
    /\ book = EmptyBook
    /\ amendCall = NoAmend
    /\ NoThread
    /\ quoteNow = 200000 /\ fastPolls = 0 /\ venueFaults = TRUE

\* save_exchange_trade_info (lines 206-208): the whole dict replaces the file
SavedFile(info) == [exists |-> TRUE, data |-> info]

\* load_exchange_trade_info (lines 210-215), called by __init__ at line 203
LoadedInfo(file) == IF file.exists THEN file.data ELSE [sy \in LimitSymbols |-> 0]

\* exchange_limits(symbol) for a symbol (lines 303-319, 338-339).  marketsOut is
\* whether load_markets answers or raises, saveOut whether the file can be written.
ExchangeLimits(symbol, marketsOut, saveOut) ==
    /\ exchange_trade_info[symbol] # 0 => marketsOut = "ok"
    /\ (exchange_trade_info[symbol] # 0 \/ marketsOut = "raise" \/ venueListing[symbol] = 0)
           => saveOut = "ok"
    /\ IF exchange_trade_info[symbol] # 0
       THEN /\ limitsCall' = [called |-> TRUE, symbol |-> symbol, path |-> "hit",
                              value |-> exchange_trade_info[symbol], err |-> FALSE,
                              changed |-> FALSE]
            /\ UNCHANGED <<exchange_trade_info, tradeInfoFile>>
       ELSE IF marketsOut = "raise"
       THEN /\ limitsCall' = [called |-> TRUE, symbol |-> symbol, path |-> "raise",
                              value |-> 0, err |-> TRUE, changed |-> FALSE]
            /\ UNCHANGED <<exchange_trade_info, tradeInfoFile>>
       ELSE IF venueListing[symbol] = 0
       THEN /\ limitsCall' = [called |-> TRUE, symbol |-> symbol, path |-> "unlisted",
                              value |-> ErrorDict, err |-> FALSE, changed |-> FALSE]
            /\ UNCHANGED <<exchange_trade_info, tradeInfoFile>>
       ELSE /\ exchange_trade_info' =
                   [exchange_trade_info EXCEPT ![symbol] = venueListing[symbol]]
            /\ IF saveOut = "ok"
               THEN /\ tradeInfoFile' = SavedFile(exchange_trade_info')
                    /\ limitsCall' = [called |-> TRUE, symbol |-> symbol,
                                      path |-> "fetched",
                                      value |-> venueListing[symbol], err |-> FALSE,
                                      changed |-> TRUE]
               ELSE /\ UNCHANGED tradeInfoFile
                    /\ limitsCall' = [called |-> TRUE, symbol |-> symbol,
                                      path |-> "savefail", value |-> 0, err |-> TRUE,
                                      changed |-> TRUE]
    /\ UNCHANGED <<venueListing, engineSideVars, registryVars, channelVars,
                   sideButLimits>>

\* exchange_limits() without a symbol (lines 321-339): every listed market is
\* cached again and the file rewritten
ExchangeLimitsAll(marketsOut, saveOut) ==
    /\ marketsOut = "raise" => saveOut = "ok"
    /\ IF marketsOut = "raise"
       THEN /\ limitsCall' = [called |-> TRUE, symbol |-> "all", path |-> "raise",
                              value |-> 0, err |-> TRUE, changed |-> FALSE]
            /\ UNCHANGED <<exchange_trade_info, tradeInfoFile>>
       ELSE /\ exchange_trade_info' =
                   [sy \in LimitSymbols |->
                       IF venueListing[sy] # 0 THEN venueListing[sy]
                                               ELSE exchange_trade_info[sy]]
            /\ IF saveOut = "ok"
               THEN /\ tradeInfoFile' = SavedFile(exchange_trade_info')
                    /\ limitsCall' = [called |-> TRUE, symbol |-> "all",
                                      path |-> "fetched", value |-> AllLimits,
                                      err |-> FALSE,
                                      changed |-> exchange_trade_info' # exchange_trade_info]
               ELSE /\ UNCHANGED tradeInfoFile
                    /\ limitsCall' = [called |-> TRUE, symbol |-> "all",
                                      path |-> "savefail", value |-> 0, err |-> TRUE,
                                      changed |-> exchange_trade_info' # exchange_trade_info]
    /\ UNCHANGED <<venueListing, engineSideVars, registryVars, channelVars,
                   sideButLimits>>

\* a new BinanceDriver is constructed (line 203): the cache is what the file holds
DriverRestart ==
    /\ exchange_trade_info' = LoadedInfo(tradeInfoFile)
    /\ exchange_trade_info' # exchange_trade_info
    /\ UNCHANGED <<tradeInfoFile, venueListing, limitsCall, engineSideVars,
                   registryVars, channelVars, sideButLimits>>

\* the venue lists a symbol, changes its limits or delists it
VenueRelists(symbol, version) ==
    /\ venueListing[symbol] # version
    /\ venueListing' = [venueListing EXCEPT ![symbol] = version]
    /\ UNCHANGED <<exchange_trade_info, tradeInfoFile, limitsCall, engineSideVars,
                   registryVars, channelVars, sideButLimits>>

InitLimits ==
    /\ NoSide
    /\ NoRegistry
    /\ NoChannel
    /\ EngineAtRest

NextLimits ==
    \/ \E symbol \in LimitSymbols, marketsOut \in {"ok", "raise"}, saveOut \in {"ok", "raise"} :
           ExchangeLimits(symbol, marketsOut, saveOut)
    \/ \E marketsOut \in {"ok", "raise"}, saveOut \in {"ok", "raise"} :
           ExchangeLimitsAll(marketsOut, saveOut)
    \/ DriverRestart
    \/ \E symbol \in LimitSymbols, version \in {0} \cup SpecVersions :
           VenueRelists(symbol, version)

SpecLimits == InitLimits /\ [][NextLimits]_vars

---------------------------------------------------------------------------
(* The claim about market metadata, checked under SpecLimits *)

\* the spec the file holds for the symbol of the last call
PersistedForCall == tradeInfoFile.data[limitsCall.symbol]

\* C18: a call of exchange_limits for a symbol that misses the cache and gets the
\* spec from the venue persists it; a call that finds the symbol cached returns a
\* spec; and a call whose fetch gets no spec from the venue (load_markets raises, or
\* the venue does not list the symbol) returns the persisted spec if there is one,
\* and otherwise returns no value, an error as the error element of its result, and
\* leaves the cache as it was.
C18_MetadataFetchedPersistedOrError ==
    (limitsCall.called /\ limitsCall.symbol \in LimitSymbols) =>
        /\ limitsCall.path = "fetched" =>
               /\ limitsCall.value \in SpecVersions
               /\ PersistedForCall = limitsCall.value
        /\ limitsCall.path = "hit" => limitsCall.value \in SpecVersions
        /\ limitsCall.path \in {"raise", "unlisted"} =>
               IF PersistedForCall # 0
               THEN limitsCall.value = PersistedForCall /\ ~limitsCall.err
               ELSE limitsCall.value = 0 /\ limitsCall.err /\ ~limitsCall.changed

\* the parts of C18 about a symbol the venue can answer for: what is fetched is
\* persisted, and while the file holds a spec for a symbol every call for that
\* symbol by a driver built on that file finds it cached
MetadataFetchedIsPersisted ==
    (limitsCall.called /\ limitsCall.symbol \in LimitSymbols
        /\ limitsCall.path = "fetched") => PersistedForCall = limitsCall.value

\* a symbol the file holds a spec for is cached, so a fetch is only ever made
\* for a symbol with no persisted spec
PersistedIsCached ==
    \A sy \in LimitSymbols :
        tradeInfoFile.data[sy] # 0 => exchange_trade_info[sy] # 0

\* when load_markets raises the driver returns (None, error) and changes nothing
MetadataRaiseIsAnError ==
    (limitsCall.called /\ limitsCall.path = "raise") =>
        limitsCall.value = 0 /\ limitsCall.err /\ ~limitsCall.changed

---------------------------------------------------------------------------
(* AsterClient.place_market_order (aster.py lines 839-886), a coroutine    *)
(* that submits a market order and polls until it is FILLED.  Time is in   *)
(* tenths of a second.                                                     *)

\* the wait window of line 868 (10 s) and the sleep of line 869 (0.2 s)
MarketWindow == 100
MarketPollSleep == 2

\* the direction argument of a call; "hold" stands for any other string
MarketDirections == {"buy", "sell", "hold"}

\* statuses the venue reports for a market order
MarketStatuses == {"NEW", "PARTIALLY_FILLED", "FILLED", "EXPIRED"}

\* an order's status at the venue only moves forward
VenueMayReport(old, new) ==
    \/ new = old
    \/ old = "NEW"
    \/ old = "PARTIALLY_FILLED" /\ new \in {"FILLED", "EXPIRED"}

\* lines 874-886, reached when the loop of line 868 is over: a status other than
\* FILLED ends the process (sys.exit), FILLED reads order_info, which is a local
\* assigned only by a poll
AfterMarketWait(status, bound) ==
    IF status # "FILLED" THEN "exited"
    ELSE IF bound THEN "returned" ELSE "raised"

\* lines 851-872 up to the first await of the loop.  requestOut is whether the
\* POST of line 863 answers or raises (_make_request, lines 530-534).
PlaceMarketOrder(direction, requestOut, status) ==
    /\ processAlive
    /\ mpc \in {"idle", "returned", "raised"}
    /\ (direction = "hold" \/ requestOut = "raise") => status = "NEW"
    /\ direction = "hold" => requestOut = "ok"
    /\ waited' = 0
    /\ order_info_bound' = FALSE
    /\ IF direction = "hold"
       THEN mpc' = "returned" /\ order_status' = ""
       ELSE IF requestOut = "raise"
       THEN mpc' = "raised" /\ order_status' = ""
       ELSE /\ order_status' = status
            /\ mpc' = IF status # "FILLED" /\ 0 < MarketWindow
                      THEN "polling"
                      ELSE AfterMarketWait(status, FALSE)
    /\ processAlive' = (mpc' # "exited")
    /\ UNCHANGED <<engineSideVars, registryVars, channelVars, sideButMarketOrder>>

\* one turn of the loop of lines 868-872 and, when it ends the loop, lines 874-886.
\* infoOut is what get_order_info gives: "raise", "none" (no orderId in the
\* answer) or the order's status.
MarketPoll(infoOut) ==
    /\ processAlive
    /\ mpc = "polling"
    /\ infoOut \in MarketStatuses => VenueMayReport(order_status, infoOut)
    /\ waited' = waited + MarketPollSleep
    /\ IF infoOut = "raise"
       THEN /\ mpc' = "raised"
            /\ UNCHANGED <<order_status, order_info_bound>>
       ELSE /\ order_status' = IF infoOut = "none" THEN order_status ELSE infoOut
            /\ order_info_bound' = (order_info_bound \/ infoOut # "none")
            /\ mpc' = IF order_status' # "FILLED" /\ waited' < MarketWindow
                      THEN "polling"
                      ELSE AfterMarketWait(order_status', order_info_bound')
    /\ processAlive' = (mpc' # "exited")
    /\ UNCHANGED <<engineSideVars, registryVars, channelVars, sideButMarketOrder>>

InitMarketOrder ==
    /\ NoSide
    /\ NoRegistry
    /\ NoChannel
    /\ EngineAtRest

NextMarketOrder ==
    \/ \E direction \in MarketDirections, requestOut \in {"ok", "raise"}, status \in MarketStatuses :
           PlaceMarketOrder(direction, requestOut, status)
    \/ \E infoOut \in MarketStatuses \cup {"none", "raise"} : MarketPoll(infoOut)

SpecMarketOrder == InitMarketOrder /\ [][NextMarketOrder]_vars

---------------------------------------------------------------------------
(* The claim about process termination, checked under SpecMarketOrder *)

\* C20: no operation terminates the process: whatever the venue answers, and also
\* when a market order is not reported FILLED within its wait window, the
\* operation is still running or has handed a result or an error to its caller.
C20_NoOperationEndsTheProcess ==
    /\ processAlive
    /\ mpc \in {"idle", "polling", "returned", "raised"}

\* a market order that is FILLED by a poll within the window is returned as a result
MarketOrderFilledIsReturned ==
    (mpc = "returned" /\ order_status = "FILLED") => order_info_bound /\ processAlive

---------------------------------------------------------------------------
(* The claim about what a poll cycle drops, checked under SpecTrack *)

\* C21: the tracker drops a ticket from tracking only when a listing of its
\* symbol succeeded and no longer holds it: no ticket of the batch that is still
\* open at the venue belongs to a coin the thread has put in done_coin, also
\* after a listing call that failed.
C21_FailedListingDropsNothing ==
    \A i \in BookIds :
        (Member(batch, i) /\ book[i].st = "open") => book[i].coin \notin done_coin

---------------------------------------------------------------------------
(* The tasks of one AsterWebSocketManager.  connect() awaits the venue      *)
(* twice (lines 236 and 242), so the other tasks of the event loop run      *)
(* between its call and its answers: a connect() call is a step that        *)
(* begins it and a step in which its answers arrive.                        *)

\* AsterClient.connect (lines 567-569) starts ws_manager.connect() as a task
ClientConnects ==
    /\ ~running /\ websocket = 0 /\ ~stopped
    /\ pendingConnect = NoPending
    /\ pendingConnect' = [by |-> "client", sock |-> 0, task |-> "none"]
    /\ UNCHANGED <<channelVars, lastConnect, keepalives, latestAlive, stopped,
                   engineSideVars, registryVars, sideButLife>>

\* _listen reads a listenKeyExpired message (lines 268-271, 282-284):
\* when not running the loop ends, else _handle_message calls connect()
\* (lines 312-316)
ExpiryRead ==
    /\ pendingConnect = NoPending
    /\ \E sock \in listening \cap pendingExpired :
        /\ pendingExpired' = pendingExpired \ {sock}
        /\ IF ~running
           THEN /\ listening' = listening \ {sock}
                /\ UNCHANGED pendingConnect
           ELSE /\ pendingConnect' = [by |-> "expiry", sock |-> sock, task |-> "none"]
                /\ UNCHANGED listening
    /\ UNCHANGED <<running, listen_key, websocket, lastPing, sockKey, sockOpen,
                   sessionKey, keysIssued, venueFilled, heldFilled, lastExpiry,
                   lastConnect, keepalives, latestAlive, stopped,
                   engineSideVars, registryVars, sideButLife>>

\* keepalive tasks other than self._keepalive_task that have not ended
OlderKeepalives == keepalives - (IF latestAlive THEN 1 ELSE 0)

\* a keepalive task wakes from its sleep (lines 182-216).  When not running it
\* ends (lines 187-188); when the health check or the keepalive request fails
\* it calls connect(); otherwise it sleeps again.
KeepaliveWakes ==
    /\ pendingConnect = NoPending
    /\ keepalives > 0
    /\ \E task \in {"latest", "older"}, atMark \in BOOLEAN, keepOut \in {"ok", "fail"} :
        /\ task = "latest" => latestAlive
        /\ task = "older" => OlderKeepalives > 0
        /\ keepOut = "ok" => sessionKey # 0
        /\ (~running \/ ~ConnectionHealthy(lastPing) \/ ~atMark \/ listen_key = 0)
              => keepOut = "fail"
        /\ ~running => atMark
        /\ IF ~running
           THEN /\ keepalives' = keepalives - 1
                /\ latestAlive' = (latestAlive /\ task # "latest")
                /\ UNCHANGED pendingConnect
           ELSE /\ \/ ~ConnectionHealthy(lastPing)                      \* 191
                   \/ (listen_key # 0 /\ atMark /\ keepOut = "fail")    \* 205-207
                /\ pendingConnect' = [by |-> "keepalive", sock |-> 0, task |-> task]
                /\ UNCHANGED <<keepalives, latestAlive>>
    /\ UNCHANGED <<channelVars, lastConnect, stopped, engineSideVars, registryVars,
                   sideButLife>>

\* how a connect() call ends
ConnectOutcome(keyOut, wsOut) ==
    IF keyOut = "raise" THEN "raise"
    ELSE IF keyOut = "none" THEN "nokey"
    ELSE IF wsOut = "fail" THEN "wsfail" ELSE "ok"

\* the keepalive tasks after a connect() call: a call that succeeds creates
\* one (line 249) and its caller goes on into _listen (line 252), so a
\* keepalive task that called it is a keepalive task no more
KeepalivesAfterConnect(n, by, out) ==
    IF out # "ok" THEN n
    ELSE IF by = "keepalive" THEN n ELSE n + 1

\* the answers of the venue arrive and the connect() call in progress runs to
\* its end (lines 234-257)
ConnectAnswers ==
    /\ pendingConnect # NoPending
    /\ \E keyOut \in {"ok", "none", "raise"}, wsOut \in {"ok", "fail"} :
        /\ Connect(keyOut, wsOut, pendingConnect.sock)
        /\ lastConnect' = [by |-> pendingConnect.by,
                           out |-> ConnectOutcome(keyOut, wsOut)]
        /\ keepalives' = KeepalivesAfterConnect(keepalives, pendingConnect.by,
                                                lastConnect'.out)
        /\ latestAlive' = (lastConnect'.out = "ok" \/ latestAlive)
    /\ pendingConnect' = NoPending
    /\ UNCHANGED <<lastPing, pendingExpired, venueFilled, heldFilled, lastExpiry,
                   stopped, engineSideVars, registryVars, sideButLife>>

\* disconnect (lines 388-401): running is cleared, self._keepalive_task is
\* cancelled, and with it a connect() call that task is awaiting, and
\* self.websocket is closed
Disconnect ==
    /\ ~stopped
    /\ running \/ pendingConnect # NoPending
    /\ running' = FALSE
    /\ keepalives' = IF latestAlive THEN keepalives - 1 ELSE keepalives
    /\ latestAlive' = FALSE
    /\ pendingConnect' =
          IF pendingConnect.by = "keepalive" /\ pendingConnect.task = "latest"
          THEN NoPending ELSE pendingConnect
    /\ sockOpen' = sockOpen \ {websocket}
    /\ listening' = listening \ {websocket}
    /\ pendingExpired' = pendingExpired \ {websocket}
    /\ stopped' = TRUE
    /\ UNCHANGED <<listen_key, websocket, lastPing, sockKey, sessionKey, keysIssued,
                   venueFilled, heldFilled, lastExpiry, lastConnect,
                   engineSideVars, registryVars, sideButLife>>

InitLifecycle ==
    /\ NoChannel
    /\ NoRegistry
    /\ NoSide
    /\ EngineAtRest

NextLifecycle ==
    \/ ClientConnects
    \/ ConnectAnswers
    \/ SessionExpires
    \/ ExpiryRead
    \/ ServerCloses
    \/ PingArrives
    \/ PingAges
    \/ KeepaliveWakes
    \/ Disconnect

SpecLifecycle == InitLifecycle /\ [][NextLifecycle]_vars

---------------------------------------------------------------------------
(* Claims about the channel's life cycle, checked under SpecLifecycle *)

\* C22: the channel is marked running only after an authentication and a
\* connection that succeeded: every socket that is read was opened with the key
\* its connect() call obtained, and after a connect() call that failed to get a
\* key or to open the socket the channel is not marked running.
C22_FailedConnectLeavesDisconnected ==
    /\ \A i \in listening : sockKey[i] # 0
    /\ lastConnect.out \in {"raise", "nokey", "wsfail"} => ~running

\* C27: the channel instance has at most one keepalive task and at most one
\* open connection at any time.
C27_OneKeepaliveOneConnection ==
    /\ keepalives <= 1
    /\ Cardinality(sockOpen) <= 1

\* C28: once disconnect() has completed the channel stays stopped: it is not
\* running, no keepalive task is left, no connection is open and no socket is
\* read, also when a connect() call was in progress.
C28_DisconnectedStaysStopped ==
    stopped =>
        /\ ~running
        /\ keepalives = 0
        /\ sockOpen = {}
        /\ listening = {}

---------------------------------------------------------------------------
(* The timing of _start_keepalive_task (aster.py lines 182-217) on a channel *)
(* that stays healthy.  Time is in minutes.                                 *)

\* line 185: the sleep between two rounds; line 205: the keepalive request
\* is made when time.time() % (50 * 60) < 5 * 60
KeepaliveSleep == 5
KeepalivePeriod == 50
KeepaliveMark == 5

\* how long the venue keeps a listen key valid without a keepalive request
KeyValidity == 60

\* the most a round takes beyond its sleep: the health check, the PUT of
\* _keepalive_listen_key and the scheduling of the task
MaxRoundDelay == 1

\* line 205
AtKeepaliveMark(clock) == clock % KeepalivePeriod < KeepaliveMark

\* one round of the loop: the task sleeps, wakes delay later than the sleep
\* asked for, and makes the keepalive request if the clock is at the mark
KeepaliveRound(delay) ==
    /\ keyAge < KeyValidity
    /\ wallClock' = (wallClock + KeepaliveSleep + delay) % KeepalivePeriod
    /\ keyAge' = IF AtKeepaliveMark(wallClock') THEN 0
                 ELSE Min(keyAge + KeepaliveSleep + delay, KeyValidity)
    /\ UNCHANGED <<engineSideVars, registryVars, channelVars, sideButClock>>

\* connect() obtains the key at any time of the clock
InitKeepalive ==
    /\ wallClock \in 0..(KeepalivePeriod - 1)
    /\ keyAge = 0
    /\ NoLimits /\ NoMarketOrder /\ NoLifecycle /\ NoMessages /\ NoLighter /\ NoRace /\ NoBus
    /\ NoRegistry
    /\ NoChannel
    /\ EngineAtRest

NextKeepalive == \E delay \in 0..MaxRoundDelay : KeepaliveRound(delay)

SpecKeepalive == InitKeepalive /\ [][NextKeepalive]_vars

---------------------------------------------------------------------------
(* The claim about keepalive timing, checked under SpecKeepalive *)

\* C23: while the channel runs, no whole validity window of the listen key
\* passes without a keepalive request, whatever the processing delays of the
\* keepalive task's wake-ups are.
C23_KeepaliveInEveryWindow == keyAge < KeyValidity

---------------------------------------------------------------------------
(* What _listen does with one message (aster.py lines 267-287), through     *)
(* _handle_message (lines 306-323) and _handle_order_update (lines 334-376) *)

\* messages read in a behaviour
MaxMessages == 2

\* what a message is: a ping frame, an ORDER_TRADE_UPDATE, an object of
\* another type, text that json.loads rejects, JSON that is not an object
MessageKinds == {"ping", "order", "unknown", "unparsable", "nondict"}

\* the venue's order statuses (field X); the last is not in status_map
VenueStatuses == {"NEW", "PARTIALLY_FILLED", "FILLED", "CANCELED", "REJECTED",
                  "EXPIRED", "NEW_ADL"}

\* the status, had it been handed on as the venue sent it
MappedStatusKept(status) == status

\* lines 346-354: status_map.get(status, status)
MappedStatus(status) == IF status = "NEW" THEN "OPEN" ELSE status

\* lines 359-362
OrderType(side, close_side) == IF Lower(side) = close_side THEN "CLOSE" ELSE "OPEN"

\* one turn of the loop of _listen.  cbOut is what order_update_callback does.
MessageRead(kind, status, side, cbOut) ==
    /\ msgs < MaxMessages
    /\ kind # "order" => status = "NEW" /\ side = "BUY" /\ cbOut = "ok"
    /\ \E sock \in listening \cap sockOpen :
        IF ~running                                                  \* 269-270
        THEN /\ listening' = listening \ {sock}
             /\ UNCHANGED <<lastPing, messageVars>>
        ELSE /\ msgs' = msgs + 1
             /\ lastMessage' = [kind |-> kind, status |-> status, side |-> side,
                                callback |-> IF kind = "order" THEN cbOut ELSE "none"]
             /\ lastPing' = IF kind = "ping" THEN "fresh" ELSE lastPing   \* 273-277
             /\ callbackCalls' = IF kind = "order" THEN 1 ELSE 0         \* 364
             /\ lastUpdate' =
                   IF kind = "order"
                   THEN [status |-> MappedStatus(status), side |-> Lower(side),
                         order_type |-> OrderType(side, close_order_side)]
                   ELSE lastUpdate
             /\ UNCHANGED <<listening, close_order_side>>
    /\ UNCHANGED <<running, listen_key, websocket, sockKey, sockOpen, sessionKey,
                   keysIssued, pendingExpired, venueFilled, heldFilled, lastExpiry,
                   engineSideVars, registryVars, sideButMessages>>

InitMessages ==
    /\ NoChannel
    /\ NoRegistry
    /\ NoLimits /\ NoMarketOrder /\ NoLifecycle /\ NoKeepaliveClock /\ NoLighter /\ NoRace /\ NoBus
    /\ msgs = 0 /\ lastMessage = NoMessage /\ callbackCalls = 0
    /\ lastUpdate = NoUpdate
    /\ close_order_side \in {"buy", "sell"}
    /\ EngineAtRest

NextMessages ==
    \/ ChannelConnect
    \/ \E kind \in MessageKinds, status \in VenueStatuses, side \in {"BUY", "SELL"}, cbOut \in {"ok", "raise"} :
          MessageRead(kind, status, side, cbOut)
    \/ ServerCloses
    \/ ChannelDisconnect

SpecMessages == InitMessages /\ [][NextMessages]_vars

---------------------------------------------------------------------------
(* The claim about message handling, checked under SpecMessages *)

\* what the last message read led to
MessageHandledByType ==
    lastMessage.kind # "none" =>
        IF lastMessage.kind = "order"
        THEN /\ callbackCalls = 1
             /\ lastUpdate.status = (IF lastMessage.status = "NEW" THEN "OPEN"
                                     ELSE lastMessage.status)
        ELSE callbackCalls = 0

\* a step of a running channel that reads a message keeps the connection
\* open and read
MessageKeepsListening ==
    (msgs' # msgs) => (sockOpen' = sockOpen /\ listening' = listening /\ running')

\* C24: a message read by a running channel is handled by its type: an
\* ORDER_TRADE_UPDATE is handed to the callback exactly once, with status NEW
\* as OPEN and any other status as sent; a message of another type, an
\* unparsable one and one whose callback fails lead to no further callback;
\* and in every case the connection stays open and read.
C24_MessagesClassified == []MessageHandledByType /\ [][MessageKeepsListening]_vars

C24_Witness ==
    /\ lastMessage.kind = "order" /\ lastMessage.status = "NEW"
    /\ lastMessage.callback = "raise"
    /\ callbackCalls = 1 /\ lastUpdate.status = "OPEN"
    /\ running /\ websocket \in listening \cap sockOpen

---------------------------------------------------------------------------
(* LighterClient._handle_websocket_order_update                             *)
(* (ctos/drivers/lighter/lighter_driver.py lines 317-381)                   *)

\* statuses of a pushed update, after .upper() (line 338)
LighterStatuses == {"OPEN", "FILLED", "CANCELED", "PENDING"}

\* the updates of a push: those of the client's market, and one of another
\* market (line 328)
LighterUpdates ==
    [order_index : LighterOrders, status : LighterStatuses, filled : {0, 1},
     market : {"own"}]
    \cup {[order_index |-> 1, status |-> "OPEN", filled |-> 0, market |-> "other"]}

\* no second update in the pushed list
NoLighterUpdate == [order_index |-> 0, status |-> "none", filled |-> 0,
                    market |-> "none"]

\* lines 344-355, had a CANCELED update been stored like any other status
CacheAfterKeepingCanceled(cache, u) ==
    LET id == u.order_index IN
    IF u.market # "own" THEN cache
    ELSE IF cache[id] # NotCached
    THEN IF cache[id].status = "OPEN" /\ u.status = "OPEN"
            /\ u.filled = cache[id].filled_size
         THEN cache
         ELSE IF u.status = "FILLED"
         THEN [cache EXCEPT ![id] = NotCached]
         ELSE [cache EXCEPT ![id] = [status |-> u.status, filled_size |-> u.filled]]
    ELSE IF u.status = "OPEN"
    THEN [cache EXCEPT ![id] = [status |-> u.status, filled_size |-> u.filled]]
    ELSE cache

\* lines 328-355: what one update of the list does to orders_cache
CacheAfter(cache, u) ==
    LET id == u.order_index IN
    IF u.market # "own" THEN cache                                   \* 328-329
    ELSE IF cache[id] # NotCached                                    \* 344
    THEN IF cache[id].status = "OPEN" /\ u.status = "OPEN"
            /\ u.filled = cache[id].filled_size
         THEN cache                                                  \* 345-348
         ELSE IF u.status \in {"FILLED", "CANCELED"}
         THEN [cache EXCEPT ![id] = NotCached]                       \* 349-350
         ELSE [cache EXCEPT ![id] = [status |-> u.status, filled_size |-> u.filled]]
    ELSE IF u.status = "OPEN"                                        \* 354-355
    THEN [cache EXCEPT ![id] = [status |-> u.status, filled_size |-> u.filled]]
    ELSE cache

\* whether the loop body reaches line 357 for the update
Reported(cache, u) ==
    /\ u.market = "own"
    /\ ~(cache[u.order_index] # NotCached /\ cache[u.order_index].status = "OPEN"
           /\ u.status = "OPEN" /\ u.filled = cache[u.order_index].filled_size)

\* lines 330-334, 365-376: self.current_order after one update.  mine is
\* whether the update carries the client id of the client's current order.
CurrentAfter(cur, cache, u, close_side, mine) ==
    LET side == IF u.isAsk THEN "sell" ELSE "buy" IN
    IF Reported(cache, u) /\ (mine \/ side # close_side)
    THEN u.order_index ELSE cur

\* the handler, for a pushed list of one update (u2 = NoLighterUpdate) or two
HandleWebsocketOrderUpdate(u1, u2, isAsk, mine) ==
    LET c1 == CacheAfter(orders_cache, u1)
        k1 == CurrentAfter(current_order, orders_cache,
                           [order_index |-> u1.order_index, status |-> u1.status,
                            filled |-> u1.filled, market |-> u1.market,
                            isAsk |-> isAsk], "sell", mine)
        s1 == IF u1.market = "own"
              THEN [lastSeen EXCEPT ![u1.order_index] = u1.status] ELSE lastSeen
        last == IF u2 = NoLighterUpdate THEN u1 ELSE u2
        cacheBeforeLast == IF u2 = NoLighterUpdate THEN orders_cache ELSE c1
    IN  /\ orders_cache' = IF u2 = NoLighterUpdate THEN c1 ELSE CacheAfter(c1, u2)
        /\ current_order' =
              IF u2 = NoLighterUpdate THEN k1
              ELSE CurrentAfter(k1, c1,
                                [order_index |-> u2.order_index, status |-> u2.status,
                                 filled |-> u2.filled, market |-> u2.market,
                                 isAsk |-> isAsk], "sell", mine)
        /\ lastSeen' = IF u2 = NoLighterUpdate \/ u2.market # "own" THEN s1
                       ELSE [s1 EXCEPT ![u2.order_index] = u2.status]
        /\ lastPush' = [order_index |-> last.order_index, status |-> last.status,
                        filled |-> last.filled, market |-> last.market,
                        alone |-> (u2 = NoLighterUpdate),
                        wasCached |-> (cacheBeforeLast[last.order_index] # NotCached)]
        /\ UNCHANGED <<engineSideVars, registryVars, channelVars, sideButLighter>>

InitLighter ==
    /\ NoLighter
    /\ NoLimits /\ NoMarketOrder /\ NoLifecycle /\ NoKeepaliveClock /\ NoMessages
    /\ NoRace /\ NoBus
    /\ NoRegistry
    /\ NoChannel
    /\ EngineAtRest

NextLighter ==
    \E u1 \in LighterUpdates, u2 \in LighterUpdates \cup {NoLighterUpdate}, isAsk \in BOOLEAN, mine \in BOOLEAN :
        HandleWebsocketOrderUpdate(u1, u2, isAsk, mine)

SpecLighter == InitLighter /\ [][NextLighter]_vars

---------------------------------------------------------------------------
(* The claim about the order cache, checked under SpecLighter *)

\* the cache holds only orders whose last update seen was not FILLED or CANCELED
CacheHoldsNoTerminalOrder ==
    \A o \in LighterOrders :
        orders_cache[o] # NotCached =>
            /\ lastSeen[o] \notin {"none", "FILLED", "CANCELED"}
            /\ orders_cache[o].status = lastSeen[o]

\* what a list of one update does to the cache
OneUpdateStep ==
    (lastPush' # lastPush /\ lastPush'.alone /\ lastPush'.market = "own") =>
        LET u == lastPush'
            o == u.order_index
        IN  /\ u.status \in {"FILLED", "CANCELED"} => orders_cache'[o] = NotCached
            /\ (u.status \in {"FILLED", "CANCELED"} /\ orders_cache[o] = NotCached)
                  => orders_cache' = orders_cache
            /\ (u.status = "OPEN" /\ orders_cache[o] # NotCached
                  /\ orders_cache[o].status = "OPEN"
                  /\ orders_cache[o].filled_size = u.filled)
                  => orders_cache' = orders_cache

\* C25: after any sequence of pushed updates the cache holds only orders whose
\* last update seen was not terminal; a FILLED or CANCELED update removes its
\* order at once, such an update for an order that is not cached adds nothing,
\* and an OPEN update repeating the cached filled size changes nothing.
C25_CacheHoldsOnlyLiveOrders == []CacheHoldsNoTerminalOrder /\ [][OneUpdateStep]_vars

\* a cached order has just been removed by a CANCELED update while another
\* stays cached
C25_Witness ==
    /\ lastPush.status = "CANCELED" /\ lastPush.wasCached /\ lastPush.alone
    /\ orders_cache[lastPush.order_index] = NotCached
    /\ \E o \in LighterOrders : orders_cache[o] # NotCached

---------------------------------------------------------------------------
(* The engine's list self.soft_orders_to_focus under two threads: the       *)
(* caller's thread in place_incremental_orders (ExecutionEngine.py line     *)
(* 327) and a tracking thread ending (lines 217-222).  Line 327,            *)
(* `self.soft_orders_to_focus += ids`, loads the list object, extends it in *)
(* place and stores it back; line 219 builds a new list and stores it.  The *)
(* interpreter may switch threads between these steps.                      *)

\* soft placements made while the tracking thread ends
MaxPlacements == 2

\* line 327, first step: the call has placed one soft order (lines 287-289 or
\* 310-312) and loads self.soft_orders_to_focus
PlaceLoads ==
    /\ ppc = "idle"
    /\ placements < MaxPlacements
    /\ placedNew' = <<nextOrderId>>
    /\ nextOrderId' = nextOrderId + 1
    /\ placedRef' = soft_orders_to_focus
    /\ placedSame' = TRUE
    /\ ppc' = "loaded"
    /\ UNCHANGED <<engineVars, placeCall, envVars, driverVars, trackVars, purged,
                   registered, placements, registryVars, channelVars, sideButRace>>

\* line 327, second step: the loaded list object is extended in place
PlaceExtends ==
    /\ ppc = "loaded"
    /\ placedRef' = placedRef \o placedNew
    /\ soft_orders_to_focus' = IF placedSame THEN soft_orders_to_focus \o placedNew
                               ELSE soft_orders_to_focus
    /\ ppc' = "extended"
    /\ UNCHANGED <<watch_threads, placeVars, envVars, driverVars, trackVars, purged,
                   placedSame, placedNew, registered, placements, registryVars,
                   channelVars, sideButRace>>

\* line 327, third step: the object is stored into self.soft_orders_to_focus,
\* and the call returns its ids (line 328)
PlaceStores ==
    /\ ppc = "extended"
    /\ soft_orders_to_focus' = placedRef
    /\ placedSame' = TRUE
    /\ registered' = registered \cup {placedNew[i] : i \in 1..Len(placedNew)}
    /\ placements' = placements + 1
    /\ ppc' = "idle"
    /\ UNCHANGED <<watch_threads, placeVars, envVars, driverVars, trackVars, purged,
                   placedRef, placedNew, registryVars, channelVars, sideButRace>>

\* line 217 and the right-hand side of line 219: the comprehension builds
\* the list without the batch's ids
PurgeReads ==
    /\ tpc = "end"
    /\ ShouldStop(need_to_watch, elapsed)
    /\ purged' = Purged(soft_orders_to_focus, batch)
    /\ tpc' = "purge"
    /\ UNCHANGED <<engineVars, placeVars, envVars, driverVars, venueVars, coins, batch,
                   ci, exist, oi, done_coin, need_to_watch, watch_times_for_all_coins,
                   elapsed, endedBy, historyVars, ppc, placedRef, placedSame,
                   placedNew, registered, placements, registryVars, channelVars,
                   sideButRace>>

\* the assignment of line 219, and lines 220-222
PurgeStores ==
    /\ tpc = "purge"
    /\ soft_orders_to_focus' = purged
    /\ placedSame' = FALSE
    /\ watch_threads' = IF watch_threads >= 1 THEN watch_threads - 1 ELSE watch_threads
    /\ endedBy' = IF need_to_watch THEN "deadline" ELSE "idle"
    /\ tpc' = "done"
    /\ UNCHANGED <<placeVars, envVars, driverVars, venueVars, coins, batch, ci, exist,
                   oi, done_coin, need_to_watch, watch_times_for_all_coins, elapsed,
                   historyVars, purged, ppc, placedRef, placedNew, registered,
                   placements, registryVars, channelVars, sideButRace>>

\* a tracking thread at the end of its last cycle, its batch among the ids
\* the engine holds
InitRace ==
    /\ soft_orders_to_focus \in {<<1>>, <<1, 2>>, <<1, 2, 3>>, <<3, 1>>}
    /\ batch \in {<<1>>, <<1, 2>>}
    /\ \A i \in 1..Len(batch) : Member(soft_orders_to_focus, batch[i])
    /\ registered = {soft_orders_to_focus[i] : i \in 1..Len(soft_orders_to_focus)}
                      \ {batch[i] : i \in 1..Len(batch)}
    /\ purged = <<>> /\ ppc = "idle" /\ placedRef = <<>> /\ placedSame = TRUE
    /\ placedNew = <<>> /\ placements = 0
    /\ watch_threads = 1
    /\ nextOrderId = 4
    /\ tpc = "end" /\ need_to_watch \in BOOLEAN
    /\ elapsed = IF need_to_watch THEN TimeBudget + 1 ELSE StartSleep + PollSleep
    /\ coins = <<"c1">> /\ ci = 1 /\ exist = <<>> /\ oi = 0 /\ done_coin = {}
    /\ watch_times_for_all_coins = 0 /\ endedBy = "none"
    /\ lastAmend = NoTrackerAmend /\ cycleFailed = {}
    /\ marketSpec = [min_order_size |-> 1, size_precision |-> 1,
                     price_precision |-> 1, contract_value |-> 1]
    /\ placeCall = NoCall(marketSpec)
    /\ roundMode = "floor"
    /\ book = EmptyBook
    /\ amendCall = NoAmend
    /\ quoteNow = 200000 /\ fastPolls = 0 /\ venueFaults = TRUE
    /\ NoLimits /\ NoMarketOrder /\ NoLifecycle /\ NoKeepaliveClock /\ NoMessages
    /\ NoLighter /\ NoBus
    /\ NoRegistry
    /\ NoChannel

NextRace ==
    \/ PlaceLoads
    \/ PlaceExtends
    \/ PlaceStores
    \/ PurgeReads
    \/ PurgeStores

SpecRace == InitRace /\ [][NextRace]_vars

---------------------------------------------------------------------------
(* The claim about the shared list, checked under SpecRace *)

\* C26: whenever no placing call is inside line 327, every id registered for
\* a batch that has not terminated is in self.soft_orders_to_focus, and once
\* the tracking thread has ended no id of its batch is.
C26_NoIdLostNoneLeft ==
    ppc = "idle" =>
        /\ \A x \in registered : Member(soft_orders_to_focus, x)
        /\ tpc = "done" => \A i \in 1..Len(batch) : ~Member(soft_orders_to_focus, batch[i])

---------------------------------------------------------------------------
(* The outcomes of BinanceDriver.amend_order, checked under SpecDriver *)

\* the call left the original and a replacement both open at the venue
BothOpenAfterAmend ==
    /\ amendCall.ret # 0
    /\ book[amendCall.order_id].st = "open"
    /\ book[amendCall.ret].st = "open"

\* the call cancelled the original and no replacement was accepted
CancelledWithoutReplacement ==
    /\ amendCall.called
    /\ amendCall.cancelled
    /\ amendCall.ret = 0

\* C29: for every outcome of the status lookup, the cancel and the place of
\* amend_order, the original and a replacement are never both open at the
\* venue after amend returns, and whenever the original was cancelled but no
\* replacement was accepted, amend returns a non-empty error.
C29_AmendLeavesOneOrderOrAnError ==
    /\ amendCall.called => ~BothOpenAfterAmend
    /\ CancelledWithoutReplacement => amendCall.err # None

\* the first half of C29 alone
AmendNeverLeavesBothOpen == amendCall.called => ~BothOpenAfterAmend

---------------------------------------------------------------------------
(* EventBus (event_bus.py) in async mode: the caller's threads in start(),  *)
(* stop() and publish(), and the threads running _worker_loop.  Each action *)
(* is one step between two points where another thread may run.            *)

\* max_queue_size, and the events published
QueueSize == 2
MaxEvents == 3

\* the None stop() puts on the queue
StopSignal == 0

BusWorkers == 1..MaxStarts

\* start(), lines 57-60, called by the thread that calls stop()
BusStart ==
    /\ stopPc = "idle"
    /\ ~bus_running
    /\ starts < MaxStarts
    /\ bus_running' = TRUE
    /\ starts' = starts + 1
    /\ workers' = [workers EXCEPT ![starts + 1] = "top"]
    /\ UNCHANGED <<eventQueue, holding, stopPc, stats, enqueued, deliveredEvents,
                   engineSideVars, registryVars, channelVars, sideButBus>>

\* publish(topic, message), lines 121-138: put_nowait, or the event is
\* counted as dropped when the queue is full
BusPublish ==
    /\ stats.published < MaxEvents
    /\ LET ev == stats.published + 1
       IN  IF Len(eventQueue) < QueueSize
           THEN /\ eventQueue' = Append(eventQueue, ev)
                /\ enqueued' = enqueued \cup {ev}
                /\ stats' = [stats EXCEPT !.published = ev]
           ELSE /\ stats' = [stats EXCEPT !.published = ev, !.dropped = @ + 1]
                /\ UNCHANGED <<eventQueue, enqueued>>
    /\ UNCHANGED <<bus_running, workers, holding, starts, stopPc, deliveredEvents,
                   engineSideVars, registryVars, channelVars, sideButBus>>

\* stop(), lines 65-66
StopClearsRunning ==
    /\ stopPc = "idle"
    /\ bus_running
    /\ bus_running' = FALSE
    /\ stopPc' = "put"
    /\ UNCHANGED <<eventQueue, workers, holding, starts, stats, enqueued,
                   deliveredEvents, engineSideVars, registryVars, channelVars,
                   sideButBus>>

\* stop(), line 68: Queue.put without a timeout waits while the queue is full
StopPutsSignal ==
    /\ stopPc = "put"
    /\ Len(eventQueue) < QueueSize
    /\ eventQueue' = Append(eventQueue, StopSignal)
    /\ stopPc' = "join"
    /\ UNCHANGED <<bus_running, workers, holding, starts, stats, enqueued,
                   deliveredEvents, engineSideVars, registryVars, channelVars,
                   sideButBus>>

\* stop(), lines 70-71: join(timeout=2) ends when the thread has, or after
\* two seconds
StopJoins ==
    /\ stopPc = "join"
    /\ stopPc' = "idle"
    /\ UNCHANGED <<eventQueue, bus_running, workers, holding, starts, stats,
                   enqueued, deliveredEvents, engineSideVars, registryVars,
                   channelVars, sideButBus>>

\* _worker_loop, line 142
WorkerChecks(w) ==
    /\ workers[w] = "top"
    /\ workers' = [workers EXCEPT ![w] = IF bus_running THEN "get" ELSE "exited"]
    /\ UNCHANGED <<eventQueue, bus_running, holding, starts, stopPc, stats, enqueued,
                   deliveredEvents, engineSideVars, registryVars, channelVars,
                   sideButBus>>

\* _worker_loop, lines 144-146 and 148-149: get(timeout=1) takes the head,
\* or runs out and the loop continues; the stop signal ends the loop
WorkerGets(w) ==
    /\ workers[w] = "get"
    /\ IF eventQueue = <<>>
       THEN /\ workers' = [workers EXCEPT ![w] = "top"]
            /\ UNCHANGED <<eventQueue, holding>>
       ELSE /\ eventQueue' = Tail(eventQueue)
            /\ IF Head(eventQueue) = StopSignal
               THEN /\ workers' = [workers EXCEPT ![w] = "exited"]
                    /\ UNCHANGED holding
               ELSE /\ workers' = [workers EXCEPT ![w] = "deliver"]
                    /\ holding' = [holding EXCEPT ![w] = Head(eventQueue)]
    /\ UNCHANGED <<bus_running, starts, stopPc, stats, enqueued, deliveredEvents,
                   engineSideVars, registryVars, channelVars, sideButBus>>

\* _worker_loop, line 147: the event goes to _deliver (one subscriber)
WorkerDelivers(w) ==
    /\ workers[w] = "deliver"
    /\ deliveredEvents' = deliveredEvents \cup {holding[w]}
    /\ stats' = [stats EXCEPT !.delivered = @ + 1]
    /\ holding' = [holding EXCEPT ![w] = 0]
    /\ workers' = [workers EXCEPT ![w] = "top"]
    /\ UNCHANGED <<eventQueue, bus_running, starts, stopPc, enqueued,
                   engineSideVars, registryVars, channelVars, sideButBus>>

InitBus ==
    /\ NoBus
    /\ NoLimits /\ NoMarketOrder /\ NoLifecycle /\ NoKeepaliveClock /\ NoMessages
    /\ NoLighter /\ NoRace
    /\ NoRegistry
    /\ NoChannel
    /\ EngineAtRest

NextBus ==
    \/ BusStart
    \/ BusPublish
    \/ StopClearsRunning
    \/ StopPutsSignal
    \/ StopJoins
    \/ \E w \in BusWorkers : WorkerChecks(w)
    \/ \E w \in BusWorkers : WorkerGets(w)
    \/ \E w \in BusWorkers : WorkerDelivers(w)

SpecBus == InitBus /\ [][NextBus]_vars

---------------------------------------------------------------------------
(* The claim about EventBus.stop, checked under SpecBus *)

\* no thread is left in _worker_loop
NoWorkerAlive == \A w \in BusWorkers : workers[w] \in {"unborn", "exited"}

\* stop() waits in put on a full queue that no thread will take from
StopWaitsOnFullQueue ==
    /\ stopPc = "put"
    /\ Len(eventQueue) = QueueSize
    /\ NoWorkerAlive

\* the bus is running with no stop() under way, and its thread has ended
\* with events of publish() on the queue neither delivered nor dropped
RestartedWorkerGone ==
    /\ bus_running
    /\ stopPc = "idle"
    /\ workers[starts] = "exited"
    /\ \E ev \in enqueued : ev \notin deliveredEvents

\* C30: stop() always returns, under every interleaving with publish() and
\* the worker thread and for every queue occupancy: it is never left waiting
\* on a full queue nobody takes from; and after a later start() the worker
\* delivers every event publish() enqueued, without counting it as dropped:
\* while the bus runs its worker does not end with such events undelivered.
C30_StopReturnsRestartDelivers ==
    /\ ~StopWaitsOnFullQueue
    /\ ~RestartedWorkerGone

\* the first half of C30 alone
StopNeverWaitsForever == ~StopWaitsOnFullQueue

\* the second half of C30 alone
RestartedWorkerDelivers == ~RestartedWorkerGone
====
